---- MODULE Spec2Model ----
(***************************************************************************)
(* Recommendation and user-similarity engine of the restaurant-discovery   *)
(* backend (backend/app/services, backend/app/routers).                    *)
(*                                                                         *)
(* Numbers.  Python floats are evaluated in fixed point: star ratings are  *)
(* whole stars, cosine similarities are floored hundredths, scores are     *)
(* thousandths.  Users and restaurants lie on the meridian through Chapel   *)
(* Hill: a latitude is a whole number of 0.0001 degrees (35.9132 is        *)
(* 359132) and a distance is a difference of latitudes (a unit is about    *)
(* 11 m, a kilometre about 90 units).                                      *)
(* A query that has no ORDER BY returns its rows in row-id order.          *)
(***************************************************************************)
EXTENDS Integers, Sequences, FiniteSets, TLC

VARIABLES
    restaurants,    \* restaurants table: id -> row
    ratings,        \* ratings table: set of rows [id, user_id, restaurant_id, rating, created_at]
    redis_store,    \* the cache backend: cache key -> stored JSON text
    user_preferences, \* user_preferences table: set of rows, one per user
    response,       \* what the last request or job run returned, with its input
    now,            \* the clock, in days
    bubble_preferences, \* bubble_preferences table: rows in row-id order
    UserSimilarity,     \* user_similarities table: rows in row-id order
    similarity_cluster, \* users.similarity_cluster: user id -> cluster or NULL
    weighted_ratings,   \* weighted_ratings table: rows in row-id order
    lottery_now,        \* the clock of the lottery requests, in minutes
    checkins,           \* restaurant_checkins table: rows in row-id order
    detailed_ratings,   \* detailed_ratings table: rows in row-id order
    user_points,        \* user_points table: rows in row-id order
    point_transactions, \* point_transactions table: rows in row-id order
    in_flight           \* worker -> the rating request it has begun, with what it read

recVars == <<restaurants, ratings, redis_store, user_preferences, response>>
simVars == <<now, bubble_preferences, UserSimilarity, similarity_cluster,
             weighted_ratings>>
lotVars == <<lottery_now, checkins, detailed_ratings, user_points,
             point_transactions, in_flight>>
vars == <<recVars, simVars, lotVars>>

\* the lottery tables before any lottery request
lottery_tables_empty ==
    /\ lottery_now = 0
    /\ checkins = <<>>
    /\ detailed_ratings = <<>>
    /\ user_points = <<>>
    /\ point_transactions = <<>>
    /\ in_flight = <<>>

\* Python None and SQL NULL: "None" where the values are strings, NULL where
\* they are numbers (a value no number of the model takes)
None == "None"
NULL == -(1000 * 1000)

\* ------------------------------------------------------------------ bounds
MaxCacheEntries == 1
MaxNow == 8
MaxRestaurants == 4
MaxTotalRatings == 10
MaxUserCount == 250
MaxRaters == 12

Users == {1, 2}

\* ------------------------------------------------------------- arithmetic
Abs(x) == IF x < 0 THEN -x ELSE x
Min(a, b) == IF a < b THEN a ELSE b
Max(a, b) == IF a > b THEN a ELSE b

\* the sum of the values of a function with a finite domain
RECURSIVE Sum(_)
Sum(f) ==
    IF DOMAIN f = {} THEN 0
    ELSE LET x == CHOOSE y \in DOMAIN f : TRUE
         IN f[x] + Sum([y \in DOMAIN f \ {x} |-> f[y]])

\* numpy.log in thousandths, for the arguments the model reaches
np_log ==
    <<0, 693, 1099, 1386, 1609, 1792, 1946, 2079, 2197, 2303,
      2398, 2485, 2565, 2639, 2708, 2773, 2833, 2890, 2944, 2996>>

\* the largest k in lo..hi with k * k * nn <= 10000 * dot * dot
RECURSIVE FloorRatio(_, _, _, _)
FloorRatio(lo, hi, dot, nn) ==
    IF lo >= hi THEN lo
    ELSE LET mid == (lo + hi + 1) \div 2
         IN IF mid * mid * nn <= 10000 * dot * dot
            THEN FloorRatio(mid, hi, dot, nn)
            ELSE FloorRatio(lo, mid - 1, dot, nn)

\* sklearn cosine_similarity of two vectors given as functions over the same
\* index set, in hundredths; a zero vector has similarity 0
cosine_similarity(v1, v2) ==
    LET dot == Sum([i \in DOMAIN v1 |-> v1[i] * v2[i]])
        n1 == Sum([i \in DOMAIN v1 |-> v1[i] * v1[i]])
        n2 == Sum([i \in DOMAIN v2 |-> v2[i] * v2[i]])
    IN IF n1 = 0 \/ n2 = 0 THEN 0
       ELSE IF dot < 0 THEN -FloorRatio(0, 100, -dot, n1 * n2)
       ELSE FloorRatio(0, 100, dot, n1 * n2)

\* ------------------------------------------------------------ the tables
\* settings.chapel_hill_lat and settings.chapel_hill_lng
chapel_hill_lat == 359132
chapel_hill_lng == -790558

\* users table: the columns the engine reads
users ==
    [u \in Users |->
        [id |-> u,
         location_lat |-> NULL,
         preferred_cuisines |-> IF u = 1 THEN {"Pizza"} ELSE {},
         preferred_price_levels |-> IF u = 1 THEN {2} ELSE {}]]

\* restaurants table as seeded: three active restaurants and a closed one
SeedRestaurants ==
    <<[id |-> 1, cuisine_type |-> "Pizza", price_level |-> 2, latitude |-> 359224,
       is_active |-> TRUE, avg_rating |-> 42, rating_count |-> 10, google_rating |-> NULL],
      [id |-> 2, cuisine_type |-> "Japanese", price_level |-> 3, latitude |-> 359120,
       is_active |-> TRUE, avg_rating |-> 48, rating_count |-> 15, google_rating |-> 45],
      [id |-> 3, cuisine_type |-> "American", price_level |-> 1, latitude |-> 359150,
       is_active |-> TRUE, avg_rating |-> 35, rating_count |-> 8, google_rating |-> NULL],
      [id |-> 4, cuisine_type |-> "Pizza", price_level |-> 2, latitude |-> 359140,
       is_active |-> FALSE, avg_rating |-> 45, rating_count |-> 3, google_rating |-> NULL]>>

RestaurantIds == DOMAIN SeedRestaurants

\* ascending sequence of the members of a set of integers
RECURSIVE SortedSeq(_)
SortedSeq(S) ==
    IF S = {} THEN <<>>
    ELSE LET m == CHOOSE x \in S : \A y \in S : x <= y
         IN <<m>> \o SortedSeq(S \ {m})

Range(s) == {s[i] : i \in DOMAIN s}

\* strings have no order in TLC: a cuisine name sorts by its code
CuisineCode(c) == CHOOSE i \in 1..3 : <<"American", "Japanese", "Pizza">>[i] = c

\* -------------------------------------------- services/recommendation.py
\* the ratings of one user as a dict restaurant_id -> rating; of two rows for
\* one restaurant the later one in the query result stays
user_rating_dict(user_id) ==
    LET rows == {r \in ratings : r.user_id = user_id}
    IN [rid \in {r.restaurant_id : r \in rows} |->
           LET last == CHOOSE r \in rows : /\ r.restaurant_id = rid
                                           /\ \A q \in rows : q.restaurant_id = rid => q.id <= r.id
           IN last.rating]

geodesic(lat1, lat2) == Abs(lat1 - lat2)

\* f"{lat:.3f}": a coordinate rounded to three decimals of a degree
Round3(lat) == ((lat + 5) \div 10) * 10

\* ",".join(sorted(filter)): the filter's members in ascending order
sorted_join(filter) == SortedSeq(filter)

_get_cache_key(user_id, lat, max_distance, cuisine_filter, price_filter, limit) ==
    <<"rec", user_id, Round3(lat), Round3(chapel_hill_lng), max_distance,
      IF cuisine_filter # {} THEN sorted_join({CuisineCode(c) : c \in cuisine_filter}) ELSE <<>>,
      IF price_filter # {} THEN sorted_join(price_filter) ELSE <<>>,
      limit>>

\* the candidate query without its distance test
_get_candidate_restaurants_any_distance(user_lat, max_distance, cuisine_filter, price_filter) ==
    LET ok(id) ==
            /\ restaurants[id].is_active
            /\ cuisine_filter # {} => restaurants[id].cuisine_type \in cuisine_filter
            /\ price_filter # {} => restaurants[id].price_level \in price_filter
    IN SelectSeq(SortedSeq(DOMAIN restaurants), ok)

_get_candidate_restaurants(user_lat, max_distance, cuisine_filter, price_filter) ==
    LET ok(id) ==
            /\ restaurants[id].is_active
            /\ cuisine_filter # {} => restaurants[id].cuisine_type \in cuisine_filter
            /\ price_filter # {} => restaurants[id].price_level \in price_filter
            /\ geodesic(user_lat, restaurants[id].latitude) <= max_distance
    IN SelectSeq(SortedSeq(DOMAIN restaurants), ok)

_calculate_user_similarity(user1_ratings, user2_ratings) ==
    LET common_restaurants == DOMAIN user1_ratings \cap DOMAIN user2_ratings
    IN IF Cardinality(common_restaurants) < 2 THEN 0
       ELSE Max(0, cosine_similarity([r \in common_restaurants |-> user1_ratings[r]],
                                     [r \in common_restaurants |-> user2_ratings[r]]))

_calculate_collaborative_score(user, restaurant, rating_dict) ==
    LET restaurant_ratings == {r \in ratings : r.restaurant_id = restaurant.id}
        sim(r) == _calculate_user_similarity(rating_dict, user_rating_dict(r.user_id))
        user_similarities == {r \in restaurant_ratings : sim(r) > 0}
        total_weight == Sum([r \in user_similarities |-> sim(r)])
        weighted_sum == Sum([r \in user_similarities |-> sim(r) * r.rating])
    IN IF DOMAIN rating_dict = {} THEN 0
       ELSE IF Cardinality(restaurant_ratings) < 2 THEN 0
       ELSE IF user_similarities = {} THEN 0
       ELSE IF total_weight = 0 THEN 0
       ELSE (((weighted_sum * 1000) \div total_weight) * 4) \div 10

_calculate_content_score(user, restaurant) ==
    (IF /\ user.preferred_cuisines # {}
        /\ restaurant.cuisine_type # None
        /\ restaurant.cuisine_type \in user.preferred_cuisines
     THEN 500 ELSE 0)
    +
    (IF /\ user.preferred_price_levels # {}
        /\ restaurant.price_level \notin {NULL, 0}
        /\ restaurant.price_level \in user.preferred_price_levels
     THEN 300 ELSE 0)

_calculate_restaurant_score(user, restaurant, rating_dict) ==
    LET base_score ==
            (IF restaurant.avg_rating > 0 THEN restaurant.avg_rating * 30 ELSE 0)
            + (IF restaurant.google_rating \notin {NULL, 0}
               THEN restaurant.google_rating * 20 ELSE 0)
        collaborative_score == _calculate_collaborative_score(user, restaurant, rating_dict)
        content_score == _calculate_content_score(user, restaurant)
        popularity_score ==
            IF restaurant.rating_count > 0
            THEN Min(np_log[restaurant.rating_count + 1] \div 10, 500)
            ELSE 0
    IN IF restaurant.id \in DOMAIN rating_dict THEN 0
       ELSE Min(base_score + collaborative_score + content_score + popularity_score, 5000)

\* list.sort(key=score, reverse=True): descending and stable
RECURSIVE sort_by_score(_)
sort_by_score(recs) ==
    IF recs = <<>> THEN <<>>
    ELSE LET rest == sort_by_score(Tail(recs))
             x == Head(recs)
             before == SelectSeq(rest, LAMBDA y : y.score > x.score)
             after == SelectSeq(rest, LAMBDA y : y.score <= x.score)
         IN before \o <<x>> \o after

Take(s, n) == SubSeq(s, 1, Min(n, Len(s)))

_format_recommendations(recs) ==
    [i \in DOMAIN recs |->
        [id |-> recs[i].restaurant.id,
         cuisine_type |-> recs[i].restaurant.cuisine_type,
         price_level |-> recs[i].restaurant.price_level,
         latitude |-> recs[i].restaurant.latitude,
         distance |-> recs[i].distance,
         recommendation_score |-> recs[i].score]]

\* lines 56-86 of get_recommendations: the pipeline behind the cache
ranked_recommendations(user, user_lat, max_distance, cuisine_filter, price_filter, limit) ==
    LET candidates == _get_candidate_restaurants(user_lat, max_distance, cuisine_filter, price_filter)
        rating_dict == user_rating_dict(user.id)
        scored == [i \in DOMAIN candidates |->
                      [restaurant |-> restaurants[candidates[i]],
                       score |-> _calculate_restaurant_score(user, restaurants[candidates[i]], rating_dict),
                       distance |-> geodesic(user_lat, restaurants[candidates[i]].latitude)]]
    IN IF candidates = <<>> THEN <<>>
       ELSE _format_recommendations(Take(sort_by_score(scored), limit))

\* json.dumps(results, default=str) and json.loads: the fields of a formatted
\* recommendation are numbers, strings and None, which the text carries as they are
json_dumps(results) == <<"json", results>>
json_loads(text) == text[2]

\* RecommendationEngine.__init__: the client, or None when the ping fails
RecommendationEngine_init(ping_fails) == IF ping_fails THEN None ELSE "client"

\* lines 48-54: the cache read of get_recommendations
cache_read(redis_client, get_fails, cache_key) ==
    IF redis_client = None THEN [status |-> "off"]
    ELSE IF get_fails THEN [status |-> "error"]
    ELSE IF cache_key \in DOMAIN redis_store
         THEN [status |-> "hit", value |-> json_loads(redis_store[cache_key])]
    ELSE [status |-> "miss"]

\* a get_recommendations that lets a failed cache read reach its caller
get_recommendations_result_read_error_raised(read, formatted_results) ==
    IF read.status = "error" THEN [status |-> 500, result |-> <<>>]
    ELSE IF read.status = "hit" THEN [status |-> 200, result |-> read.value]
    ELSE [status |-> 200, result |-> formatted_results]

\* what get_recommendations hands back, given the cache read and the pipeline's
\* list: the cached list on a hit, the pipeline's list otherwise
get_recommendations_result(read, formatted_results) ==
    IF read.status = "hit"
    THEN [status |-> 200, result |-> read.value]
    ELSE [status |-> 200, result |-> formatted_results]

\* lines 88-93: the cache write of get_recommendations
cache_write(redis_client, setex_fails, cache_key, formatted_results) ==
    IF redis_client = None THEN [status |-> "off", store |-> redis_store]
    ELSE IF setex_fails THEN [status |-> "error", store |-> redis_store]
    ELSE [status |-> "ok",
          store |-> [k \in DOMAIN redis_store \cup {cache_key} |->
                        IF k = cache_key THEN json_dumps(formatted_results)
                        ELSE redis_store[k]]]

\* the location get_recommendations uses: the request's, the user's, Chapel Hill
effective_lat(user, user_lat) ==
    IF user_lat # NULL THEN user_lat
    ELSE IF user.location_lat \notin {NULL, 0} THEN user.location_lat
    ELSE chapel_hill_lat

\* POST /recommendations: a fresh engine, then get_recommendations
get_recommendations(user_id, request, ping_fails, get_fails, setex_fails) ==
    LET user == users[user_id]
        user_lat == effective_lat(user, request.user_lat)
        cache_key == _get_cache_key(user.id, user_lat, request.max_distance,
                                    request.cuisine_filter, request.price_filter, request.limit)
        redis_client == RecommendationEngine_init(ping_fails)
        read == cache_read(redis_client, get_fails, cache_key)
        candidates == _get_candidate_restaurants(user_lat, request.max_distance,
                                                 request.cuisine_filter, request.price_filter)
        formatted_results == ranked_recommendations(user, user_lat, request.max_distance,
                                 request.cuisine_filter, request.price_filter, request.limit)
        returned == get_recommendations_result(read, formatted_results)
        write == IF read.status = "hit" \/ returned.status # 200 \/ candidates = <<>>
                 THEN [status |-> "none", store |-> redis_store]
                 ELSE cache_write(redis_client, setex_fails, cache_key, formatted_results)
    IN /\ \/ cache_key \in DOMAIN redis_store
          \/ Cardinality(DOMAIN redis_store) < MaxCacheEntries
       /\ response' = [op |-> "get_recommendations", user_id |-> user_id,
                       request |-> request, user_lat |-> user_lat,
                       cache |-> read.status, cache_write |-> write.status,
                       status |-> returned.status, result |-> returned.result]
       /\ redis_store' = write.store
       /\ UNCHANGED <<restaurants, ratings, user_preferences>>

\* lines 292-323 of update_user_preferences: the weight each rating adds
preference_weight(rating, avg_rating_given) ==
    Max(100, (rating * 100 - avg_rating_given + 250) * 2)

normalized_scores(scores) ==
    IF DOMAIN scores = {} THEN scores
    ELSE LET max_score == CHOOSE m \in Range(scores) : \A x \in Range(scores) : x <= m
         IN [k \in DOMAIN scores |-> (scores[k] * 1000) \div max_score]

\* update_user_preferences on the tables given: the user_preferences table after it
update_user_preferences(preferences, rows, rests, user_id) ==
    LET user_ratings == {r \in rows : r.user_id = user_id}
        total_ratings == Cardinality(user_ratings)
        avg_rating_given == (Sum([r \in user_ratings |-> r.rating]) * 100) \div total_ratings
        known == {r \in user_ratings : r.restaurant_id \in DOMAIN rests}
        weight(r) == preference_weight(r.rating, avg_rating_given)
        with_cuisine == {r \in known : rests[r.restaurant_id].cuisine_type \notin {None, ""}}
        with_price == {r \in known : rests[r.restaurant_id].price_level \notin {NULL, 0}}
        cuisine_scores ==
            [c \in {rests[r.restaurant_id].cuisine_type : r \in with_cuisine} |->
                Sum([r \in {q \in with_cuisine : rests[q.restaurant_id].cuisine_type = c} |-> weight(r)])]
        price_level_scores ==
            [p \in {rests[r.restaurant_id].price_level : r \in with_price} |->
                Sum([r \in {q \in with_price : rests[q.restaurant_id].price_level = p} |-> weight(r)])]
    IN IF user_ratings = {} THEN preferences
       ELSE {p \in preferences : p.user_id # user_id} \cup
            {[user_id |-> user_id,
              cuisine_scores |-> normalized_scores(cuisine_scores),
              price_level_scores |-> normalized_scores(price_level_scores),
              total_ratings |-> total_ratings,
              avg_rating_given |-> avg_rating_given]}

\* setex(key, 1800, ...): thirty minutes after the write the backend drops the entry
cache_expire(cache_key) ==
    /\ cache_key \in DOMAIN redis_store
    /\ redis_store' = [k \in DOMAIN redis_store \ {cache_key} |-> redis_store[k]]
    /\ response' = [op |-> "none"]
    /\ UNCHANGED <<restaurants, ratings, user_preferences>>

\* ------------------------------------------------------ routers/ratings.py
\* func.avg over the restaurant's rows in tenths of a star, 0.0 when there are none
restaurant_avg_rating(rows) ==
    IF rows = {} THEN 0
    ELSE (Sum([r \in rows |-> r.rating]) * 10) \div Cardinality(rows)

next_rating_id(rows) ==
    IF rows = {} THEN 1
    ELSE 1 + (CHOOSE i \in {r.id : r \in rows} : \A r \in rows : r.id <= i)

\* lines 28-47: update the user's row for the restaurant, or add one
\* (upsert_rating_always_adds is lines 39-45 taken on every request)
upsert_rating_always_adds(rows, user_id, restaurant_id, rating) ==
    rows \cup {[id |-> next_rating_id(rows), user_id |-> user_id,
                restaurant_id |-> restaurant_id, rating |-> rating,
                created_at |-> now]}

upsert_rating(rows, user_id, restaurant_id, rating) ==
    LET existing == {r \in rows : r.user_id = user_id /\ r.restaurant_id = restaurant_id}
        first == CHOOSE r \in existing : \A q \in existing : r.id <= q.id
    IN IF existing # {}
       THEN (rows \ {first}) \cup {[first EXCEPT !.rating = rating]}
       ELSE rows \cup {[id |-> next_rating_id(rows), user_id |-> user_id,
                        restaurant_id |-> restaurant_id, rating |-> rating,
                        created_at |-> now]}

\* POST /ratings
create_rating(user_id, restaurant_id, rating) ==
    IF restaurant_id \notin DOMAIN restaurants
    THEN /\ response' = [op |-> "create_rating", status |-> 404, user_id |-> user_id,
                          restaurant_id |-> restaurant_id, rating |-> rating]
         /\ UNCHANGED <<restaurants, ratings, redis_store, user_preferences>>
    ELSE LET rows == upsert_rating(ratings, user_id, restaurant_id, rating)
             of_restaurant == {r \in rows : r.restaurant_id = restaurant_id}
             rests == [restaurants EXCEPT
                          ![restaurant_id].avg_rating = restaurant_avg_rating(of_restaurant),
                          ![restaurant_id].rating_count = Cardinality(of_restaurant)]
         IN /\ ratings' = rows
            /\ restaurants' = rests
            /\ user_preferences' = update_user_preferences(user_preferences, rows, rests, user_id)
            /\ response' = [op |-> "create_rating", status |-> 201, user_id |-> user_id,
                             restaurant_id |-> restaurant_id, rating |-> rating,
                             db_rating |-> CHOOSE r \in rows : r.user_id = user_id
                                                  /\ r.restaurant_id = restaurant_id
                                                  /\ r.rating = rating]
            /\ UNCHANGED redis_store

\* ------------------------------------------ services/similarity_engine.py
\* rows of the trailing 365 days (created_at > cutoff_date)
rated_last_year == {r \in ratings : r.created_at > now - 365}

\* SELECT DISTINCT user_id ... ORDER BY user_id
_get_users_with_ratings == SortedSeq({r.user_id : r \in rated_last_year})

\* pivot_table(index=user_id, columns=restaurant_id).fillna(0): the mean
\* rating of a user for a restaurant, 0 where the user has none
user_item_matrix(user_ids) ==
    LET rows == {r \in rated_last_year : r.user_id \in Range(user_ids)}
        columns == {r.restaurant_id : r \in rows}
        cell(u, c) ==
            LET rs == {r \in rows : r.user_id = u /\ r.restaurant_id = c}
            IN IF rs = {} THEN 0
               ELSE Sum([r \in rs |-> r.rating]) \div Cardinality(rs)
    IN [u \in {r.user_id : r \in rows} |-> [c \in columns |-> cell(u, c)]]

\* cosine_similarity(v1, v2) > hundredths / 100, compared exactly
cosine_exceeds(v1, v2, hundredths) ==
    LET dot == Sum([i \in DOMAIN v1 |-> v1[i] * v2[i]])
        n1 == Sum([i \in DOMAIN v1 |-> v1[i] * v1[i]])
        n2 == Sum([i \in DOMAIN v2 |-> v2[i] * v2[i]])
    IN dot > 0 /\ 10000 * dot * dot > hundredths * hundredths * n1 * n2

\* dict (user1, user2) -> similarity in hundredths, user1 before user2 in the
\* index of the matrix, kept above 0.1
_compute_rating_similarities(user_ids) ==
    LET matrix == user_item_matrix(user_ids)
        keys == {k \in (DOMAIN matrix) \X (DOMAIN matrix) :
                    k[1] < k[2] /\ cosine_exceeds(matrix[k[1]], matrix[k[2]], 10)}
    IN [k \in keys |-> cosine_similarity(matrix[k[1]], matrix[k[2]])]

\* dict (user1, user2) -> similarity in hundredths, user1 before user2 in the
\* rows the query returned, kept above 0.2
_compute_preference_similarities(user_ids) ==
    LET in_users(pref) == pref.user_id \in Range(user_ids)
        bubble_prefs == SelectSeq(bubble_preferences, in_users)
        has_vector(pref) == pref.preference_vector # <<>>
        preference_data == SelectSeq(bubble_prefs, has_vector)
        n == Len(preference_data)
        vector(i) == preference_data[i].preference_vector
        index_pairs == {ij \in (1..n) \X (1..n) :
                           ij[1] < ij[2] /\ cosine_exceeds(vector(ij[1]), vector(ij[2]), 20)}
        keys == {<<preference_data[ij[1]].user_id, preference_data[ij[2]].user_id>> :
                    ij \in index_pairs}
        value(k) ==
            LET ij == CHOOSE x \in index_pairs :
                          /\ preference_data[x[1]].user_id = k[1]
                          /\ preference_data[x[2]].user_id = k[2]
            IN cosine_similarity(vector(ij[1]), vector(ij[2]))
    IN IF Len(bubble_prefs) < 2 \/ n < 2 THEN <<>>
       ELSE [k \in keys |-> value(k)]

\* rating_sim * 0.7 + pref_sim * 0.3, in thousandths
overall_similarity(rating_sim, pref_sim) == rating_sim * 7 + pref_sim * 3

\* the orders in which a loop can go through a Python set
Orderings(S) ==
    {seq \in [1..Cardinality(S) -> S] : \A i, j \in DOMAIN seq : seq[i] = seq[j] => i = j}

batch_size == 1000

\* line 211: only a similarity above 0.15 is stored; before it, a test that
\* lets every similarity through
is_meaningful_any_value(overall_sim) == TRUE

is_meaningful(overall_sim) == overall_sim > 150

\* the loop of lines 204-238 over the pairs in the order given: table is the
\* rows the session sees, batch the new rows not yet added to it
RECURSIVE store_pairs(_, _, _, _, _)
store_pairs(table, batch, pairs, rating_sims, pref_sims) ==
    IF pairs = <<>> THEN table \o batch
    ELSE LET user1 == Head(pairs)[1]
             user2 == Head(pairs)[2]
             rating_sim == IF Head(pairs) \in DOMAIN rating_sims
                           THEN rating_sims[Head(pairs)] ELSE 0
             pref_sim == IF Head(pairs) \in DOMAIN pref_sims
                         THEN pref_sims[Head(pairs)] ELSE 0
             overall_sim == overall_similarity(rating_sim, pref_sim)
             found == {i \in DOMAIN table :
                          \/ table[i].user_1_id = user1 /\ table[i].user_2_id = user2
                          \/ table[i].user_1_id = user2 /\ table[i].user_2_id = user1}
             existing == CHOOSE i \in found : \A j \in found : i <= j
             updated == [table EXCEPT ![existing] =
                            [@ EXCEPT !.rating_similarity = rating_sim,
                                      !.preference_similarity = pref_sim,
                                      !.overall_similarity = overall_sim,
                                      !.last_computed = now]]
             created == Append(batch,
                            [user_1_id |-> Min(user1, user2),
                             user_2_id |-> Max(user1, user2),
                             rating_similarity |-> rating_sim,
                             preference_similarity |-> pref_sim,
                             overall_similarity |-> overall_sim,
                             last_computed |-> now])
         IN IF ~is_meaningful(overall_sim)
            THEN store_pairs(table, batch, Tail(pairs), rating_sims, pref_sims)
            ELSE IF found # {}
            THEN store_pairs(updated, batch, Tail(pairs), rating_sims, pref_sims)
            ELSE IF Len(created) >= batch_size
            THEN store_pairs(table \o created, <<>>, Tail(pairs), rating_sims, pref_sims)
            ELSE store_pairs(table, created, Tail(pairs), rating_sims, pref_sims)

\* the table after the purge of rows older than 7 days and the loop over
\* all_user_pairs taken in the order pairs
\* (_store_combined_similarities_without_purge is the loop alone)
_store_combined_similarities_without_purge(table, rating_sims, pref_sims, pairs) ==
    store_pairs(table, <<>>, pairs, rating_sims, pref_sims)

_store_combined_similarities(table, rating_sims, pref_sims, pairs) ==
    LET fresh(row) == ~(row.last_computed < now - 7)
    IN store_pairs(SelectSeq(table, fresh), <<>>, pairs, rating_sims, pref_sims)

\* min(max(2, len(user_ids) // 10), 20)
\* (n_clusters_uncapped is the count without the upper limit)
n_clusters_uncapped(n_users) == Max(2, n_users \div 10)

n_clusters(n_users) == Min(Max(2, n_users \div 10), 20)

\* KMeans(n_clusters, random_state=42).fit_predict: the seed is fixed, so the
\* labels are a function of the matrix.  The rows are labelled by the nearest
\* of the first n rows taken as centres, the lowest label on a tie.
KMeans_fit_predict(distance_matrix, n) ==
    LET idx == DOMAIN distance_matrix
        d2(i, c) == Sum([k \in idx |->
                        (distance_matrix[i][k] - distance_matrix[c][k])
                        * (distance_matrix[i][k] - distance_matrix[c][k])])
        label(i) == CHOOSE c \in 1..n :
                        \A e \in 1..n : d2(i, c) < d2(i, e) \/ (d2(i, c) = d2(i, e) /\ c <= e)
    IN [i \in idx |-> label(i) - 1]

\* cluster_assignments: user_id -> label, empty when there are fewer than 10
\* rows above 0.2 among the users or when the clustering fails
_update_user_clusters(table, user_ids) ==
    LET in_users(row) == /\ row.user_1_id \in Range(user_ids)
                         /\ row.user_2_id \in Range(user_ids)
                         /\ row.overall_similarity > 200
        similarities == SelectSeq(table, in_users)
        n_users == Len(user_ids)
        last_row(i, j) ==
            LET rows == {k \in DOMAIN similarities :
                            \/ similarities[k].user_1_id = user_ids[i]
                               /\ similarities[k].user_2_id = user_ids[j]
                            \/ similarities[k].user_1_id = user_ids[j]
                               /\ similarities[k].user_2_id = user_ids[i]}
            IN IF rows = {} THEN 0
               ELSE similarities[CHOOSE k \in rows : \A m \in rows : m <= k].overall_similarity
        distance_matrix == [i \in 1..n_users |-> [j \in 1..n_users |-> 1000 - last_row(i, j)]]
        cluster_labels == KMeans_fit_predict(distance_matrix, n_clusters(n_users))
    IN IF Len(similarities) < 10 THEN <<>>
       ELSE IF n_users < n_clusters(n_users) THEN <<>>
       ELSE [u \in Range(user_ids) |->
                cluster_labels[CHOOSE i \in 1..n_users : user_ids[i] = u]]

\* numpy.exp(-days_old / 180) in thousandths, for 0 to 12 days
np_exp_decay ==
    <<1000, 994, 989, 983, 978, 973, 967, 962, 957, 951, 946, 941, 936>>

\* the weighted statistics of a restaurant within a cluster, found FALSE for
\* None when none of the users rated it in the trailing 365 days; averages
\* and the trend in tenths of a star, weights and confidence in thousandths
_calculate_weighted_rating(restaurant_id, user_ids) ==
    LET rows == {r \in rated_last_year :
                    r.restaurant_id = restaurant_id /\ r.user_id \in user_ids}
        user_total_ratings(r) == Cardinality({q \in rows : q.user_id = r.user_id})
        weight(r) == (np_exp_decay[now - r.created_at + 1]
                      * Min(user_total_ratings(r) * 50, 2000)) \div 1000
        total == Sum([r \in rows |-> weight(r)])
        weighted_avg == Sum([r \in rows |-> weight(r) * r.rating * 10]) \div total
        variance == Sum([r \in rows |->
                        weight(r) * (r.rating * 10 - weighted_avg)
                                  * (r.rating * 10 - weighted_avg)]) \div total
        squares == Sum([r \in rows |-> weight(r) * weight(r)])
        confidence == Min((total * total * 100) \div squares, 1000)
        recent == {r \in rows : r.created_at > now - 60}
        old == rows \ recent
        mean(rs) == Sum([r \in rs |-> r.rating * 10]) \div Cardinality(rs)
        trend == IF Cardinality(recent) >= 2 /\ old # {}
                 THEN mean(recent) - mean(old) ELSE 0
    IN IF rows = {} THEN [found |-> FALSE]
       ELSE [found |-> TRUE, avg_rating |-> weighted_avg, confidence |-> confidence,
             total_ratings |-> Cardinality(rows), variance |-> variance,
             trend |-> trend]

\* lines 338-365: the row replaces the first row of its restaurant and
\* cluster, or is added when there is none
\* (upsert_weighted_row_always_adds is lines 354-365 taken every time)
upsert_weighted_row_always_adds(table, row) == Append(table, row)

upsert_weighted_row(table, row) ==
    LET found == {i \in DOMAIN table :
                     /\ table[i].restaurant_id = row.restaurant_id
                     /\ table[i].user_cluster = row.user_cluster}
        existing == CHOOSE i \in found : \A j \in found : i <= j
    IN IF found # {} THEN [table EXCEPT ![existing] = row] ELSE Append(table, row)

\* the loop of lines 335-367 over the restaurants in the order given
RECURSIVE weighted_rows(_, _, _, _)
weighted_rows(table, restaurant_ids, user_ids, cluster_id) ==
    IF restaurant_ids = <<>> THEN [table |-> table, updated_count |-> 0]
    ELSE LET restaurant_id == Head(restaurant_ids)
             weighted_data == _calculate_weighted_rating(restaurant_id, user_ids)
             row == [restaurant_id |-> restaurant_id,
                     user_cluster |-> cluster_id,
                     weighted_avg_rating |-> weighted_data.avg_rating,
                     confidence_score |-> weighted_data.confidence,
                     total_ratings |-> weighted_data.total_ratings,
                     rating_variance |-> weighted_data.variance,
                     recent_trend |-> weighted_data.trend,
                     last_computed |-> now]
             next == IF ~weighted_data.found THEN table
                     ELSE upsert_weighted_row(table, row)
             rest == weighted_rows(next, Tail(restaurant_ids), user_ids, cluster_id)
         IN [table |-> rest.table,
             updated_count |-> rest.updated_count + IF weighted_data.found THEN 1 ELSE 0]

\* the weighted_ratings table and the number of rows written for one cluster:
\* nothing for a cluster of fewer than 3 users
_update_cluster_weighted_ratings(table, clusters, cluster_id) ==
    LET user_ids == {u \in DOMAIN clusters : clusters[u] = cluster_id}
        restaurant_ids == SortedSeq({r.restaurant_id : r \in {q \in ratings : q.user_id \in user_ids}})
    IN IF Cardinality(user_ids) < 3 THEN [table |-> table, updated_count |-> 0]
       ELSE weighted_rows(table, restaurant_ids, user_ids, cluster_id)

\* the loop of lines 66-68 over the clusters that were assigned
RECURSIVE weighted_clusters(_, _, _)
weighted_clusters(table, clusters, cluster_ids) ==
    IF cluster_ids = <<>> THEN [table |-> table, updated_count |-> 0]
    ELSE LET one == _update_cluster_weighted_ratings(table, clusters, Head(cluster_ids))
             rest == weighted_clusters(one.table, clusters, Tail(cluster_ids))
         IN [table |-> rest.table, updated_count |-> one.updated_count + rest.updated_count]

\* line 46: the run ends at once when fewer than 2 users have ratings
\* (not_enough_users_when_none ends it only when no user has)
not_enough_users_when_none(users_with_ratings) == Len(users_with_ratings) < 1

not_enough_users(users_with_ratings) == Len(users_with_ratings) < 2

\* the periodic job: every step of lines 42-73, the loop over all_user_pairs
\* taken in any of the orders the set can be gone through
update_all_similarities ==
    LET users_with_ratings == _get_users_with_ratings
        rating_similarities == _compute_rating_similarities(users_with_ratings)
        preference_similarities == _compute_preference_similarities(users_with_ratings)
        all_user_pairs == DOMAIN rating_similarities \cup DOMAIN preference_similarities
    IN /\ IF not_enough_users(users_with_ratings)
          THEN /\ response' = [op |-> "update_all_similarities",
                               stats |-> [users_processed |-> 0,
                                          similarities_computed |-> 0,
                                          clusters_updated |-> 0,
                                          weighted_ratings_updated |-> 0]]
               /\ UNCHANGED <<UserSimilarity, similarity_cluster, weighted_ratings>>
          ELSE \E pairs \in Orderings(all_user_pairs) :
                  LET table == _store_combined_similarities(UserSimilarity,
                                   rating_similarities, preference_similarities, pairs)
                      cluster_assignments == _update_user_clusters(table, users_with_ratings)
                      clusters == [u \in DOMAIN similarity_cluster |->
                                      IF u \in DOMAIN cluster_assignments
                                      THEN cluster_assignments[u]
                                      ELSE similarity_cluster[u]]
                      weighted == weighted_clusters(weighted_ratings, clusters,
                                      SortedSeq(Range(cluster_assignments)))
                  IN /\ UserSimilarity' = table
                     /\ similarity_cluster' = clusters
                     /\ weighted_ratings' = weighted.table
                     /\ response' = [op |-> "update_all_similarities",
                                     stats |-> [users_processed |-> Len(users_with_ratings),
                                                similarities_computed |->
                                                    Cardinality(DOMAIN rating_similarities),
                                                clusters_updated |->
                                                    Cardinality(DOMAIN cluster_assignments),
                                                weighted_ratings_updated |->
                                                    weighted.updated_count]]
       /\ UNCHANGED <<lotVars, restaurants, ratings, redis_store, user_preferences, now,
                      bubble_preferences>>

\* the periodic job when the database fails during one of its steps: the
\* similarity computation (lines 51-55) or the storing (line 58).  Both are
\* reached only with 2 users or more; the handler of lines 75-77 logs the
\* exception and raises it again, and what the session had not committed is
\* lost with it
update_all_similarities_fault(step) ==
    /\ ~not_enough_users(_get_users_with_ratings)
    /\ response' = [op |-> "update_all_similarities_fault", step |-> step,
                    status |-> "raised"]
    /\ UNCHANGED <<lotVars, restaurants, ratings, redis_store, user_preferences, now,
                   bubble_preferences, UserSimilarity, similarity_cluster,
                   weighted_ratings>>

\* the isolated call of the Cluster Manager on the users with ratings
update_user_clusters ==
    LET user_ids == _get_users_with_ratings
        cluster_assignments == _update_user_clusters(UserSimilarity, user_ids)
    IN /\ similarity_cluster' = [u \in DOMAIN similarity_cluster |->
                                    IF u \in DOMAIN cluster_assignments
                                    THEN cluster_assignments[u]
                                    ELSE similarity_cluster[u]]
       /\ response' = [op |-> "_update_user_clusters", user_ids |-> user_ids,
                       cluster_assignments |-> cluster_assignments]
       /\ UNCHANGED <<lotVars, restaurants, ratings, redis_store, user_preferences, now,
                      bubble_preferences, UserSimilarity, weighted_ratings>>

\* the isolated call of the weighted-rating update for one cluster
update_cluster_weighted_ratings(cluster_id) ==
    LET one == _update_cluster_weighted_ratings(weighted_ratings, similarity_cluster, cluster_id)
    IN /\ weighted_ratings' = one.table
       /\ response' = [op |-> "_update_cluster_weighted_ratings", cluster_id |-> cluster_id,
                       updated_count |-> one.updated_count]
       /\ UNCHANGED <<lotVars, restaurants, ratings, redis_store, user_preferences, now,
                      bubble_preferences, UserSimilarity, similarity_cluster>>

\* ORDER BY overall_similarity DESC, rows of equal similarity in row-id order
RECURSIVE order_by_overall_similarity_desc(_)
order_by_overall_similarity_desc(rows) ==
    IF rows = <<>> THEN <<>>
    ELSE LET rest == order_by_overall_similarity_desc(Tail(rows))
             x == Head(rows)
             before == SelectSeq(rest, LAMBDA y : y.overall_similarity > x.overall_similarity)
             after == SelectSeq(rest, LAMBDA y : y.overall_similarity <= x.overall_similarity)
         IN before \o <<x>> \o after

\* the entry of one row as seen by user_id
similar_user_entry(sim, user_id) ==
    [user_id |-> IF sim.user_1_id = user_id THEN sim.user_2_id ELSE sim.user_1_id,
     similarity_score |-> sim.overall_similarity,
     rating_similarity |-> sim.rating_similarity,
     preference_similarity |-> sim.preference_similarity]

\* the lookup that matches the user in the first column only
get_user_similarities_first_column(user_id, limit) ==
    LET mine(row) == row.user_1_id = user_id /\ row.overall_similarity > 200
        similarities == Take(order_by_overall_similarity_desc(
                                 SelectSeq(UserSimilarity, mine)), limit)
        entries == [i \in DOMAIN similarities |-> similar_user_entry(similarities[i], user_id)]
    IN SelectSeq(entries, LAMBDA e : e.user_id \in Users)

get_user_similarities(user_id, limit) ==
    LET mine(row) == /\ row.user_1_id = user_id \/ row.user_2_id = user_id
                     /\ row.overall_similarity > 200
        similarities == Take(order_by_overall_similarity_desc(
                                 SelectSeq(UserSimilarity, mine)), limit)
        entries == [i \in DOMAIN similarities |-> similar_user_entry(similarities[i], user_id)]
    IN SelectSeq(entries, LAMBDA e : e.user_id \in Users)

\* ------------------------------------ services/advanced_recommendation.py
\* The engine's SQL names columns of the restaurants table (active, tags)
\* that the Restaurant class does not declare: the restaurants rows of the
\* states in which this engine runs carry them.  A query is modelled by the
\* rows it selects.  Scores are in thousandths until they are blended.

\* numpy.exp(-days / scale) in thousandths, by the series up to the fourth
\* power (days / scale stays below 1/2)
np_exp_neg(days, scale) ==
    LET x == (days * 1000) \div scale
        x2 == (x * x) \div 1000
        x3 == (x2 * x) \div 1000
        x4 == (x3 * x) \div 1000
    IN 1000 - x + (x2 \div 2) - (x3 \div 6) + (x4 \div 24)

\* ratings JOIN restaurants for one user: the rating rows with the columns of
\* their restaurant
ratings_df(user_id) ==
    {[rating |-> r.rating, created_at |-> r.created_at,
      restaurant_id |-> r.restaurant_id,
      cuisine_type |-> restaurants[r.restaurant_id].cuisine_type,
      price_level |-> restaurants[r.restaurant_id].price_level,
      avg_rating |-> restaurants[r.restaurant_id].avg_rating, id |-> r.id] :
        r \in {q \in ratings : q.user_id = user_id /\ q.restaurant_id \in DOMAIN restaurants}}

\* cuisine -> (weighted average / 5) * (1 + frequency bonus)
_calculate_cuisine_preferences(df) ==
    LET cuisines == {r.cuisine_type : r \in df} \ {None}
        temporal_weight(r) == np_exp_neg(now - r.created_at, 90)
        score(cuisine) ==
            LET cuisine_ratings == {r \in df : r.cuisine_type = cuisine}
                weighted_avg ==
                    Sum([r \in cuisine_ratings |-> temporal_weight(r) * r.rating * 10])
                        \div Sum([r \in cuisine_ratings |-> temporal_weight(r)])
                frequency_bonus == Min(Cardinality(cuisine_ratings) * 100, 1000)
            IN (weighted_avg * 20 * (1000 + frequency_bonus)) \div 1000
    IN [cuisine \in cuisines |-> score(cuisine)]

\* price level -> preference_score = (avg_rating / 5) * min(count / 5, 1)
_calculate_price_sensitivity(df) ==
    LET levels == {l \in {1, 2, 3, 4} : \E r \in df : r.price_level = l}
        score(l) ==
            LET price_ratings == {r \in df : r.price_level = l}
                count == Cardinality(price_ratings)
                avg_rating == Sum([r \in price_ratings |-> r.rating * 1000]) \div count
            IN ((avg_rating \div 5) * Min(count * 200, 1000)) \div 1000
    IN [l \in levels |-> score(l)]

\* unique cuisines / total ratings
_calculate_exploration_ratio(df) ==
    (Cardinality({r.cuisine_type : r \in df} \ {None}) * 1000) \div Cardinality(df)

\* UserPreference has no attribute bubble_data: reading it from a row that
\* exists raises AttributeError; without a row the preferences are empty
_get_bubble_preferences(user_id) ==
    IF \E prefs \in user_preferences : prefs.user_id = user_id
    THEN [status |-> "AttributeError"]
    ELSE [status |-> "ok", bubble_prefs |-> <<>>]

\* the profile, found FALSE for None (no such user, or no ratings)
_build_user_profile(user_id) ==
    LET df == ratings_df(user_id)
        bubble == _get_bubble_preferences(user_id)
    IN IF user_id \notin DOMAIN users \/ df = {} THEN [status |-> "ok", found |-> FALSE]
       ELSE IF bubble.status # "ok" THEN [status |-> bubble.status]
       ELSE [status |-> "ok", found |-> TRUE, user_id |-> user_id,
             cuisine_preferences |-> _calculate_cuisine_preferences(df),
             price_sensitivity |-> _calculate_price_sensitivity(df),
             bubble_preferences |-> bubble.bubble_prefs,
             exploration_ratio |-> _calculate_exploration_ratio(df),
             total_ratings |-> Cardinality(df)]

\* SELECT ... FROM restaurants WHERE active = true, as id -> row
_get_restaurant_features ==
    [id \in {i \in DOMAIN restaurants : restaurants[i].active} |-> restaurants[id]]

\* pivot_table(...).fillna(0) over the whole ratings table
_get_user_ratings_matrix ==
    LET columns == {r.restaurant_id : r \in ratings}
        cell(u, c) ==
            LET rs == {r \in ratings : r.user_id = u /\ r.restaurant_id = c}
            IN IF rs = {} THEN 0
               ELSE Sum([r \in rs |-> r.rating]) \div Cardinality(rs)
    IN [u \in {r.user_id : r \in ratings} |-> [c \in columns |-> cell(u, c)]]

\* restaurant -> weighted rating * confidence, for the restaurants the user
\* has not rated; the first of the users sorted by similarity, left out by
\* [1:21], is the user
_collaborative_filtering(user_id, matrix) ==
    LET others == DOMAIN matrix \ {user_id}
        similarity(u) == cosine_similarity(matrix[user_id], matrix[u])
        unrated_restaurants ==
            {c \in DOMAIN matrix[user_id] : matrix[user_id][c] = 0}
        raters(c) == {u \in others :
                         /\ cosine_exceeds(matrix[user_id], matrix[u], 10)
                         /\ matrix[u][c] > 0}
        score(c) ==
            LET weighted_rating ==
                    Sum([u \in raters(c) |-> similarity(u) * matrix[u][c] * 1000])
                        \div Sum([u \in raters(c) |-> similarity(u)])
            IN (weighted_rating * Cardinality(raters(c))) \div 20
    IN IF user_id \notin DOMAIN matrix THEN <<>>
       ELSE [c \in {x \in unrated_restaurants : raters(x) # {}} |-> score(c)]

\* f"price_{price_level}" is a key of the price preferences: a column with a
\* NULL in it is a float column, whose 2.0 prints as price_2.0 and is no key
price_key_matches(restaurant, frame, price_prefs) ==
    /\ \A id \in DOMAIN frame : frame[id].price_level # NULL
    /\ restaurant.price_level \in DOMAIN price_prefs

\* the content score of a restaurant of the frame; the bubble preferences of
\* a profile are empty, so their term is never added
content_score(restaurant, frame, user_profile) ==
    ((IF restaurant.cuisine_type \in DOMAIN user_profile.cuisine_preferences
      THEN user_profile.cuisine_preferences[restaurant.cuisine_type] * 4 ELSE 0)
     + (IF price_key_matches(restaurant, frame, user_profile.price_sensitivity)
        THEN user_profile.price_sensitivity[restaurant.price_level] * 3 ELSE 0)) \div 10

_content_based_filtering(user_profile, frame) ==
    [id \in DOMAIN frame |-> content_score(frame[id], frame, user_profile)]

\* other user -> similarity in hundredths, for the users with at least 3
\* restaurants in common with the user and a similarity above 0.3
_find_similar_taste_users(user_id) ==
    LET user_restaurants == user_rating_dict(user_id)
        other_users == {r.user_id : r \in {q \in ratings :
                            q.restaurant_id \in DOMAIN user_restaurants /\ q.user_id # user_id}}
        common(u) == DOMAIN user_restaurants \cap DOMAIN user_rating_dict(u)
        user_vector(u) == [c \in common(u) |-> user_restaurants[c]]
        other_vector(u) == [c \in common(u) |-> user_rating_dict(u)[c]]
        similar == {u \in other_users :
                       /\ Cardinality(common(u)) >= 3
                       /\ cosine_exceeds(user_vector(u), other_vector(u), 30)}
    IN [u \in similar |-> cosine_similarity(user_vector(u), other_vector(u))]

\* restaurant -> (mean of rating * similarity / 5) * (count / 10) over the
\* ratings of the similar users, 0 without any
_social_proof_weighting(user_id, frame) ==
    LET similar_users == _find_similar_taste_users(user_id)
        score(id) ==
            LET rows == {r \in ratings :
                            r.restaurant_id = id /\ r.user_id \in DOMAIN similar_users}
                count == Cardinality(rows)
                avg_weighted_rating ==
                    Sum([r \in rows |-> r.rating * similar_users[r.user_id] * 10]) \div count
            IN IF rows = {} THEN 0
               ELSE ((avg_weighted_rating \div 5) * count) \div 10
    IN [id \in DOMAIN frame |-> score(id)]

\* restaurant -> 0.6 * cuisine trend + 0.4 * price trend of the ratings of
\* the last 180 days, each decayed over 30 days
_apply_temporal_decay(user_id, frame) ==
    LET recent_ratings == {r \in ratings_df(user_id) : r.created_at > now - 180}
        decayed(r) == r.rating * np_exp_neg(now - r.created_at, 30)
        of_cuisine(c) == {r \in recent_ratings : c # None /\ r.cuisine_type = c}
        of_price(l) == {r \in recent_ratings : l # NULL /\ r.price_level = l}
        trend(rows) == (Sum([r \in rows |-> decayed(r)]) \div Cardinality(rows)) \div 5
        score(restaurant) ==
            ((IF of_cuisine(restaurant.cuisine_type) # {}
              THEN trend(of_cuisine(restaurant.cuisine_type)) * 6 ELSE 0)
             + (IF of_price(restaurant.price_level) # {}
                THEN trend(of_price(restaurant.price_level)) * 4 ELSE 0)) \div 10
    IN [id \in DOMAIN frame |-> IF recent_ratings = {} THEN 0 ELSE score(frame[id])]

\* the weights of the four scores, in tenths
\* (hybrid_weights_social_explorer gives explorers the social weight of new users)
hybrid_weights_social_explorer(user_profile) ==
    IF user_profile.total_ratings < 5
    THEN [collab |-> 1, content |-> 4, social |-> 4, temporal |-> 1]
    ELSE IF user_profile.exploration_ratio > 700
    THEN [collab |-> 3, content |-> 4, social |-> 4, temporal |-> 1]
    ELSE [collab |-> 4, content |-> 3, social |-> 2, temporal |-> 1]

hybrid_weights(user_profile) ==
    IF user_profile.total_ratings < 5
    THEN [collab |-> 1, content |-> 4, social |-> 4, temporal |-> 1]
    ELSE IF user_profile.exploration_ratio > 700
    THEN [collab |-> 3, content |-> 4, social |-> 2, temporal |-> 1]
    ELSE [collab |-> 4, content |-> 3, social |-> 2, temporal |-> 1]

\* restaurant -> blended score in ten-thousandths, over the union of the keys
_hybrid_scoring(collab_scores, content_scores, social_scores, temporal_scores, user_profile) ==
    LET w == hybrid_weights(user_profile)
        get(scores, id) == IF id \in DOMAIN scores THEN scores[id] ELSE 0
        all_restaurant_ids == DOMAIN collab_scores \cup DOMAIN content_scores
                              \cup DOMAIN social_scores \cup DOMAIN temporal_scores
    IN [id \in all_restaurant_ids |->
           get(collab_scores, id) * w.collab + get(content_scores, id) * w.content
           + get(social_scores, id) * w.social + get(temporal_scores, id) * w.temporal]

\* the boost of a restaurant at the given distance, in tenths
location_boost(distance) ==
    IF distance < 100 THEN 12
    ELSE IF distance < 500 THEN 10
    ELSE IF distance < 1000 THEN 8
    ELSE 3

\* the boosted scores; looking up a scored restaurant that is not in the
\* frame raises IndexError
_apply_location_filter(scores, location, frame) ==
    IF \E id \in DOMAIN scores : id \notin DOMAIN frame THEN [status |-> "IndexError"]
    ELSE [status |-> "ok",
          scores |-> [id \in DOMAIN scores |->
                         scores[id] * location_boost(Abs(location - frame[id].latitude))]]

\* sorted(scores.items(), key=score, reverse=True): the ids by falling score,
\* ids of equal score in the order of the dict, which is ascending
RECURSIVE sorted_by_score_desc(_)
sorted_by_score_desc(scores) ==
    IF DOMAIN scores = {} THEN <<>>
    ELSE LET best == CHOOSE id \in DOMAIN scores :
                         \A other \in DOMAIN scores :
                             \/ scores[id] > scores[other]
                             \/ scores[id] = scores[other] /\ id <= other
         IN <<best>> \o sorted_by_score_desc([id \in DOMAIN scores \ {best} |-> scores[id]])

cuisine_limit(limit) == Max(2, limit \div 4)
price_limit(limit) == Max(2, limit \div 3)

\* == on two cells of the frame: None equals None, and a missing price_level
\* is NaN, which equals nothing
same_cuisine(a, b) == a.cuisine_type = b.cuisine_type
same_price_level(a, b) == a.price_level # NULL /\ a.price_level = b.price_level

\* the test of line 551 without its cuisine part
is_diverse_by_price_only(restaurant, selected, frame, limit) ==
    Cardinality({i \in DOMAIN selected : same_price_level(frame[selected[i]], restaurant)})
        < price_limit(limit)

is_diverse(restaurant, selected, frame, limit) ==
    /\ Cardinality({i \in DOMAIN selected : same_cuisine(frame[selected[i]], restaurant)})
           < cuisine_limit(limit)
    /\ Cardinality({i \in DOMAIN selected : same_price_level(frame[selected[i]], restaurant)})
           < price_limit(limit)

\* the walk of lines 534-554 down the sorted ids; looking up a restaurant that
\* is not in the frame raises IndexError
RECURSIVE diversity_walk(_, _, _, _)
diversity_walk(sorted_restaurants, selected, frame, limit) ==
    IF sorted_restaurants = <<>> \/ Len(selected) >= limit
    THEN [status |-> "ok", selected |-> selected]
    ELSE IF Head(sorted_restaurants) \notin DOMAIN frame THEN [status |-> "IndexError"]
    ELSE IF is_diverse(frame[Head(sorted_restaurants)], selected, frame, limit)
    THEN diversity_walk(Tail(sorted_restaurants),
                        Append(selected, Head(sorted_restaurants)), frame, limit)
    ELSE diversity_walk(Tail(sorted_restaurants), selected, frame, limit)

\* the selector: the walk down the ids sorted by score
\* (_enhance_diversity_in_id_order walks them in the order of their ids)
_enhance_diversity_in_id_order(scores, frame, limit) ==
    diversity_walk(SortedSeq(DOMAIN scores), <<>>, frame, limit)

_enhance_diversity(scores, frame, limit) ==
    diversity_walk(sorted_by_score_desc(scores), <<>>, frame, limit)

\* NULL in the tags column, and json.loads of the column's value
NullText == <<>>
json_loads_tags(tags) ==
    IF tags = NullText THEN [status |-> "TypeError"]
    ELSE [status |-> "ok", value |-> json_loads(tags)]

\* the response entries of the restaurants in the order given; json.loads of
\* a NULL tags value raises TypeError.  match_reason, a random text, is left out
_format_advanced(restaurant_ids) ==
    IF \E i \in DOMAIN restaurant_ids :
          json_loads_tags(restaurants[restaurant_ids[i]].tags).status # "ok"
    THEN [status |-> "TypeError"]
    ELSE [status |-> "ok",
          result |-> [i \in DOMAIN restaurant_ids |->
                         LET restaurant == restaurants[restaurant_ids[i]]
                         IN [restaurant_id |-> restaurant.id,
                             cuisine_type |-> restaurant.cuisine_type,
                             price_level |-> restaurant.price_level,
                             avg_rating |-> restaurant.avg_rating,
                             latitude |-> restaurant.latitude,
                             tags |-> json_loads_tags(restaurant.tags).value]]]

\* ids ordered by the keys given, smallest first, ids of equal keys in the
\* order of the sequence
RECURSIVE sort_values(_, _, _)
sort_values(ids, key1, key2) ==
    IF ids = <<>> THEN <<>>
    ELSE LET rest == sort_values(Tail(ids), key1, key2)
             x == Head(ids)
             less(y) == key1[y] < key1[x] \/ (key1[y] = key1[x] /\ key2[y] < key2[x])
             before == SelectSeq(rest, less)
             after == SelectSeq(rest, LAMBDA y : ~less(y))
         IN before \o <<x>> \o after

\* the popular restaurants for a user without profile
_cold_start_recommendations(limit, location) ==
    LET popular == {id \in DOMAIN restaurants :
                       restaurants[id].active /\ restaurants[id].avg_rating >= 40}
        rating_count == [id \in popular |->
                            Cardinality({r \in ratings : r.restaurant_id = id})]
        ordered == Take(sort_values(SortedSeq(popular),
                                    [id \in popular |-> -restaurants[id].avg_rating],
                                    [id \in popular |-> -rating_count[id]]), limit * 2)
        distance == [id \in popular |-> Abs(restaurants[id].latitude - location)]
        nearest == IF location = NULL THEN ordered
                   ELSE sort_values(ordered, distance,
                                    [id \in popular |-> -restaurants[id].avg_rating])
    IN _format_advanced(Take(nearest, limit))

\* the four score maps blended for a user with a profile
final_scores_of(user_profile) ==
    LET frame == _get_restaurant_features
    IN _hybrid_scoring(
           _collaborative_filtering(user_profile.user_id, _get_user_ratings_matrix),
           _content_based_filtering(user_profile, frame),
           _social_proof_weighting(user_profile.user_id, frame),
           _apply_temporal_decay(user_profile.user_id, frame),
           user_profile)

\* the pipeline of lines 39-66: what it returns, or the error it raises
personalized_recommendations(user_id, limit, location) ==
    LET user_profile == _build_user_profile(user_id)
        frame == _get_restaurant_features
        located == IF location = NULL
                   THEN [status |-> "ok", scores |-> final_scores_of(user_profile)]
                   ELSE _apply_location_filter(final_scores_of(user_profile), location, frame)
        final_recommendations == _enhance_diversity(located.scores, frame, limit)
    IN IF user_profile.status # "ok" THEN [status |-> user_profile.status]
       ELSE IF ~user_profile.found
       THEN [path |-> "cold_start"] @@ _cold_start_recommendations(limit, location)
       ELSE IF located.status # "ok" THEN [status |-> located.status]
       ELSE IF final_recommendations.status # "ok"
       THEN [status |-> final_recommendations.status]
       ELSE [path |-> "hybrid"] @@ _format_advanced(final_recommendations.selected)

\* a caller asks the engine for recommendations
get_personalized_recommendations(user_id, limit, location) ==
    /\ response' = [op |-> "get_personalized_recommendations", user_id |-> user_id,
                    limit |-> limit, location |-> location]
                   @@ personalized_recommendations(user_id, limit, location)
    /\ UNCHANGED <<restaurants, ratings, redis_store, user_preferences>>
    /\ UNCHANGED <<simVars, lotVars>>

\* the isolated call of the diversity selector on a score map over the table
enhance_diversity(scores, limit) ==
    /\ response' = [op |-> "_enhance_diversity", scores |-> scores, limit |-> limit]
                   @@ _enhance_diversity(scores, restaurants, limit)
    /\ UNCHANGED <<restaurants, ratings, redis_store, user_preferences>>
    /\ UNCHANGED <<simVars, lotVars>>

\* the isolated call of the social-proof scores over the active restaurants
social_proof_weighting(user_id) ==
    /\ response' = [op |-> "_social_proof_weighting", user_id |-> user_id,
                    social_scores |-> _social_proof_weighting(user_id, _get_restaurant_features)]
    /\ UNCHANGED <<restaurants, ratings, redis_store, user_preferences>>
    /\ UNCHANGED <<simVars, lotVars>>

\* the isolated call of the blend on four score maps and a profile
hybrid_scoring(collab_scores, content_scores, social_scores, temporal_scores, user_profile) ==
    /\ response' = [op |-> "_hybrid_scoring", user_profile |-> user_profile,
                    scores |-> <<collab_scores, content_scores, social_scores, temporal_scores>>,
                    weights |-> hybrid_weights(user_profile),
                    final_scores |-> _hybrid_scoring(collab_scores, content_scores,
                                                     social_scores, temporal_scores,
                                                     user_profile)]
    /\ UNCHANGED <<restaurants, ratings, redis_store, user_preferences>>
    /\ UNCHANGED <<simVars, lotVars>>

\* the cluster count the Cluster Manager uses for a list of n_users users
cluster_count(n_users) ==
    /\ response' = [op |-> "n_clusters", n_users |-> n_users,
                    n_clusters |-> n_clusters(n_users)]
    /\ UNCHANGED <<restaurants, ratings, redis_store, user_preferences>>
    /\ UNCHANGED <<simVars, lotVars>>

\* --------------------------------------------------------- specification
\* the requests of the recommendation tests: no parameters, filters, a location
Requests ==
    {[user_lat |-> NULL, max_distance |-> 90, cuisine_filter |-> {}, price_filter |-> {}, limit |-> 2],
     [user_lat |-> 359134, max_distance |-> 90, cuisine_filter |-> {}, price_filter |-> {}, limit |-> 2],
     [user_lat |-> NULL, max_distance |-> 900, cuisine_filter |-> {"Pizza"}, price_filter |-> {2}, limit |-> 2]}

\* which of the engine's cache calls fail during one request
Outages ==
    {[ping |-> FALSE, get |-> FALSE, setex |-> FALSE],
     [ping |-> TRUE, get |-> FALSE, setex |-> FALSE],
     [ping |-> FALSE, get |-> TRUE, setex |-> FALSE],
     [ping |-> FALSE, get |-> FALSE, setex |-> TRUE],
     [ping |-> FALSE, get |-> TRUE, setex |-> TRUE]}

\* the restaurants the users rate (0 is no restaurant) and the stars they give
RatedRestaurants == {0, 2, 3}
RatingValues == {5}

InitRec ==
    /\ lottery_tables_empty
    /\ restaurants = SeedRestaurants
    /\ ratings = {}
    /\ redis_store = <<>>
    /\ user_preferences = {}
    /\ response = [op |-> "none"]
    /\ now = 0
    /\ bubble_preferences = <<>>
    /\ UserSimilarity = <<>>
    /\ similarity_cluster = [u \in Users |-> NULL]
    /\ weighted_ratings = <<>>

NextRec ==
    \/ \E u \in Users, q \in Requests, o \in Outages :
          get_recommendations(u, q, o.ping, o.get, o.setex) /\ UNCHANGED <<simVars, lotVars>>
    \/ \E k \in DOMAIN redis_store : cache_expire(k) /\ UNCHANGED <<simVars, lotVars>>
    \/ \E u \in Users, r \in RatedRestaurants, v \in RatingValues :
          create_rating(u, r, v) /\ UNCHANGED <<simVars, lotVars>>

Spec == InitRec /\ [][NextRec]_vars

\* ------------------------------------------------- the simple engine's claims
IsRecommendation == response.op = "get_recommendations"

ResultIds == {response.result[i].id : i \in DOMAIN response.result}

\* what the pipeline behind the cache computes for the request of the response
UncachedResult ==
    ranked_recommendations(users[response.user_id], response.user_lat,
        response.request.max_distance, response.request.cuisine_filter,
        response.request.price_filter, response.request.limit)

SatisfiesRequest(rec) ==
    /\ response.request.cuisine_filter # {} => rec.cuisine_type \in response.request.cuisine_filter
    /\ response.request.price_filter # {} => rec.price_level \in response.request.price_filter
    /\ geodesic(response.user_lat, rec.latitude) <= response.request.max_distance

\* C1: the list get_recommendations returns holds no restaurant the user has
\* already rated (so it is empty when the user rated every candidate); stated
\* for the lists the engine computes itself, as the tests exercise it
C1_NoRatedRestaurantReturned ==
    (IsRecommendation /\ response.cache # "hit") =>
        ResultIds \cap DOMAIN user_rating_dict(response.user_id) = {}

C10_CacheOutageReturnsUncached ==
    (/\ IsRecommendation
     /\ \/ response.cache \in {"off", "error"}
        \/ response.cache_write = "error")
    => /\ response.status = 200
       /\ response.result = UncachedResult

\* the read and the write both failed while the backend held an older list for
\* the key, and the fresh list was returned
C10_Witness ==
    /\ IsRecommendation
    /\ response.cache = "error"
    /\ response.cache_write = "error"
    /\ LET key == _get_cache_key(response.user_id, response.user_lat,
                      response.request.max_distance, response.request.cuisine_filter,
                      response.request.price_filter, response.request.limit)
       IN /\ key \in DOMAIN redis_store
          /\ json_loads(redis_store[key]) # response.result

\* ------------------------------------------ the similarity job's specification
\* the stars a user gave restaurants 1 and 2, 0 for none
RatingProfiles == {<<5, 0>>, <<1, 5>>, <<5, 5>>, <<0, 0>>}

\* the users who took the bubble survey and the vectors it computed for them,
\* in tenths: all weight on one cuisine, or a fifth on it and the rest on another
SurveyUsers == {1, 2}
PreferenceVectors == {<<10, 0>>, <<2, 8>>}

\* the days the clock advances between two events
ClockSteps == {4}

\* the day on which user 2 gave the ratings the table starts with: today, or
\* 360 days ago, so that they leave the trailing year within MaxNow days
RatingAges == {0, -360}

\* the ratings table of users with the given profiles, all rated today
ratings_of(profile) ==
    {[id |-> Len(profile[x[1]]) * (x[1] - 1) + x[2], user_id |-> x[1],
      restaurant_id |-> x[2], rating |-> profile[x[1]][x[2]], created_at |-> 0] :
        x \in {y \in Users \X RestaurantIds :
                  y[2] \in DOMAIN profile[y[1]] /\ profile[y[1]][y[2]] # 0}}

\* the bubble_preferences tables: a row per surveyed user, in the order in
\* which the users took the survey
BubbleTables ==
    UNION {{[i \in DOMAIN order |->
                [user_id |-> order[i], preference_vector |-> vector[order[i]]]] :
               order \in Orderings(S), vector \in [S -> PreferenceVectors]} :
           S \in SUBSET SurveyUsers}

\* a caller reads the users similar to user_id, with the default limit
similar_users(user_id) ==
    /\ response' = [op |-> "get_user_similarities", user_id |-> user_id,
                    result |-> get_user_similarities(user_id, 20)]
    /\ UNCHANGED <<lotVars, restaurants, ratings, redis_store, user_preferences, now,
                   bubble_preferences, UserSimilarity, similarity_cluster,
                   weighted_ratings>>

tick(days) ==
    /\ now + days <= MaxNow
    /\ now' = now + days
    /\ response' = [op |-> "none"]
    /\ UNCHANGED <<lotVars, restaurants, ratings, redis_store, user_preferences,
                   bubble_preferences, UserSimilarity, similarity_cluster,
                   weighted_ratings>>

InitSim ==
    /\ lottery_tables_empty
    /\ restaurants = SeedRestaurants
    /\ \E profile \in [Users -> RatingProfiles], age \in RatingAges :
          ratings = {[r EXCEPT !.created_at = IF r.user_id = 2 THEN age ELSE 0] :
                        r \in ratings_of(profile)}
    /\ redis_store = <<>>
    /\ user_preferences = {}
    /\ response = [op |-> "none"]
    /\ now = 0
    /\ bubble_preferences \in BubbleTables
    /\ UserSimilarity = <<>>
    /\ similarity_cluster = [u \in Users |-> NULL]
    /\ weighted_ratings = <<>>

\* the ratings that arrive between two runs of the job
LaterRatings == {[user_id |-> 2, restaurant_id |-> 2, rating |-> 1]}

NextSim ==
    \/ update_all_similarities
    \/ \E days \in ClockSteps : tick(days)
    \/ \E u \in Users : similar_users(u)
    \/ \E step \in {"similarities", "store"} : update_all_similarities_fault(step)
    \/ \E r \in LaterRatings :
          create_rating(r.user_id, r.restaurant_id, r.rating) /\ UNCHANGED <<simVars, lotVars>>

SpecSim == InitSim /\ [][NextSim]_vars

\* ------------------------------------------------ the similarity job's claims
IsBatchRun == response.op = "update_all_similarities"

\* the restaurants both users of a pair rated within the trailing 365 days
co_rated(user1, user2) ==
    {r.restaurant_id : r \in {q \in rated_last_year : q.user_id = user1}}
    \cap {r.restaurant_id : r \in {q \in rated_last_year : q.user_id = user2}}

\* the rows of a table without their timestamps
similarity_values(table) ==
    [i \in DOMAIN table |->
        <<table[i].user_1_id, table[i].user_2_id, table[i].rating_similarity,
          table[i].preference_similarity, table[i].overall_similarity>>]

\* what a lookup says about one other user
entries_about(entries, other) ==
    {<<entries[i].similarity_score, entries[i].rating_similarity,
       entries[i].preference_similarity>> :
        i \in {j \in DOMAIN entries : entries[j].user_id = other}}

\* C4: whatever runs of the job, clock advances and new ratings came before,
\* every row of the user_similarities table has overall_similarity above 0.15
C4_StoredSimilarityAboveThreshold ==
    \A i \in DOMAIN UserSimilarity : UserSimilarity[i].overall_similarity > 150

\* C4's case: a run stored a row for a pair although the pair also has a
\* blended similarity that is computed and is not above 0.15
C4_Witness ==
    /\ IsBatchRun
    /\ UserSimilarity # <<>>
    /\ LET user_ids == _get_users_with_ratings
           rating_sims == _compute_rating_similarities(user_ids)
           pref_sims == _compute_preference_similarities(user_ids)
       IN \E k \in DOMAIN rating_sims \cup DOMAIN pref_sims :
             ~is_meaningful(overall_similarity(
                 IF k \in DOMAIN rating_sims THEN rating_sims[k] ELSE 0,
                 IF k \in DOMAIN pref_sims THEN pref_sims[k] ELSE 0))

\* C5: the rating similarities the job computes hold no entry for a pair of
\* users with fewer than two co-rated restaurants
C5_NoEntryBelowTwoCoRated ==
    \A k \in DOMAIN _compute_rating_similarities(_get_users_with_ratings) :
        Cardinality(co_rated(k[1], k[2])) >= 2

\* C6: a run of the job that directly follows another run, nothing having
\* changed in between, leaves the stored rows, their values and the cluster
\* assignments as they were
C6_SecondRunChangesNothing ==
    [][(IsBatchRun /\ response'.op = "update_all_similarities") =>
          /\ similarity_values(UserSimilarity') = similarity_values(UserSimilarity)
          /\ similarity_cluster' = similarity_cluster]_vars

\* C7: for any two users, what the lookup from the one side says about the
\* other equals what the lookup from the other side says about the one
C7_LookupSymmetric ==
    \A a, b \in Users :
        entries_about(get_user_similarities(a, 20), b)
            = entries_about(get_user_similarities(b, 20), a)

\* C7's case: a caller looked up user 2, whose edge to user 1 is stored with
\* user 2 in the second column, and found user 1
C7_Witness ==
    /\ response.op = "get_user_similarities"
    /\ response.user_id = 2
    /\ \E i \in DOMAIN response.result : response.result[i].user_id = 1
    /\ \E i \in DOMAIN UserSimilarity :
          UserSimilarity[i].user_1_id = 1 /\ UserSimilarity[i].user_2_id = 2

\* ------------------------------------- the advanced engine's specification
\* the stars a user gave restaurants 1, 2 and 3, 0 for none
AdvancedProfiles == {<<0, 0, 0>>, <<5, 0, 0>>, <<5, 4, 0>>, <<4, 5, 3>>}

\* the tags column: NULL or an empty JSON list for restaurants 1 and 2, a
\* list for the others
Taggings ==
    {t \in [RestaurantIds -> {NullText, json_dumps(<<>>)}] :
        \A id \in RestaurantIds : id > 2 => t[id] # NullText}

\* the callers (user 3 is in no table), the limits and the locations asked
Callers == {1, 2, 3}
Limits == {1, 2}
Locations == {NULL, 359134}

\* the ratings that arrive through POST /ratings
ApiRatings == {[user_id |-> 2, restaurant_id |-> 3, rating |-> 4]}

InitAdv ==
    /\ lottery_tables_empty
    /\ \E t \in Taggings :
          restaurants = [id \in RestaurantIds |->
                            SeedRestaurants[id]
                            @@ [active |-> SeedRestaurants[id].is_active, tags |-> t[id]]]
    /\ ratings \in {ratings_of(profile) : profile \in [Users -> AdvancedProfiles]}
    /\ redis_store = <<>>
    /\ user_preferences = {}
    /\ response = [op |-> "none"]
    /\ now = 0
    /\ bubble_preferences = <<>>
    /\ UserSimilarity = <<>>
    /\ similarity_cluster = [u \in Users |-> NULL]
    /\ weighted_ratings = <<>>

NextAdv ==
    \/ \E u \in Callers, limit \in Limits, location \in Locations :
          get_personalized_recommendations(u, limit, location)
    \/ \E r \in ApiRatings :
          create_rating(r.user_id, r.restaurant_id, r.rating) /\ UNCHANGED <<simVars, lotVars>>

SpecAdv == InitAdv /\ [][NextAdv]_vars

\* ---------------------------------- the diversity selector's specification
\* restaurant tables of MaxRestaurants rows, with or without cuisine and
\* price level, and the score maps over them
DiversityTables ==
    [1..MaxRestaurants -> [cuisine_type : {"Pizza", None}, price_level : {2, NULL}]]
ScoreMaps == [1..MaxRestaurants -> {1, 2}]
DiversityLimits == {3, 12}

InitDiv ==
    /\ lottery_tables_empty
    /\ \E t \in DiversityTables :
          restaurants = [id \in DOMAIN t |->
                            [id |-> id, cuisine_type |-> t[id].cuisine_type,
                             price_level |-> t[id].price_level]]
    /\ ratings = {}
    /\ redis_store = <<>>
    /\ user_preferences = {}
    /\ response = [op |-> "none"]
    /\ now = 0
    /\ bubble_preferences = <<>>
    /\ UserSimilarity = <<>>
    /\ similarity_cluster = [u \in Users |-> NULL]
    /\ weighted_ratings = <<>>

NextDiv ==
    \E scores \in ScoreMaps, limit \in DiversityLimits : enhance_diversity(scores, limit)

SpecDiv == InitDiv /\ [][NextDiv]_vars

\* ---------------------------------------------- the advanced engine's claims
IsPersonalized == response.op = "get_personalized_recommendations"

\* the restaurants of the entries of the response
PersonalizedIds == {response.result[i].restaurant_id : i \in DOMAIN response.result}

\* C2: when the pipeline answers a user who has a profile, neither the
\* content-based score map nor the list it returns holds a restaurant that
\* the user has rated
C2_NoRatedRestaurantInPipeline ==
    (IsPersonalized /\ response.status = "ok" /\ response.path = "hybrid") =>
        LET rated == DOMAIN user_rating_dict(response.user_id)
            content_scores == _content_based_filtering(
                                  _build_user_profile(response.user_id),
                                  _get_restaurant_features)
        IN DOMAIN content_scores \cap rated = {} /\ PersonalizedIds \cap rated = {}

\* C3: a call for a user without any rating raises nothing and returns the
\* cold-start list: at most limit restaurants, each active and rated 4.0 or
\* better on average
C3_ColdStartNeverRaises ==
    (IsPersonalized /\ DOMAIN user_rating_dict(response.user_id) = {}) =>
        /\ response.status = "ok"
        /\ response.path = "cold_start"
        /\ Len(response.result) <= response.limit
        /\ \A id \in PersonalizedIds :
              restaurants[id].active /\ restaurants[id].avg_rating >= 40

\* C8: the list the diversity selector returns for a limit N has at most
\* max(2, N div 4) restaurants of any one cuisine and at most max(2, N div 3)
\* restaurants of any one price level
C8_DiversityCaps ==
    (response.op = "_enhance_diversity" /\ response.status = "ok") =>
        LET chosen == {response.selected[i] : i \in DOMAIN response.selected}
            N == response.limit
        IN /\ \A c \in {restaurants[id].cuisine_type : id \in chosen} :
                 Cardinality({id \in chosen : restaurants[id].cuisine_type = c})
                     <= Max(2, N \div 4)
           /\ \A l \in {restaurants[id].price_level : id \in chosen} \ {NULL} :
                 Cardinality({id \in chosen : restaurants[id].price_level = l})
                     <= Max(2, N \div 3)

\* C8's case: with room left below the limit the selector left out a pizza
\* restaurant, the list being full for that cuisine, and a restaurant of
\* price level 2, the list being full for that price level
C8_Witness ==
    /\ response.op = "_enhance_diversity"
    /\ response.status = "ok"
    /\ Len(response.selected) < response.limit
    /\ LET chosen == {response.selected[i] : i \in DOMAIN response.selected}
           N == response.limit
       IN /\ \E id \in DOMAIN response.scores \ chosen :
                /\ restaurants[id].cuisine_type = "Pizza"
                /\ Cardinality({x \in chosen : restaurants[x].cuisine_type = "Pizza"})
                       = Max(2, N \div 4)
          /\ \E id \in DOMAIN response.scores \ chosen :
                /\ restaurants[id].price_level = 2
                /\ restaurants[id].cuisine_type # "Pizza"
                /\ Cardinality({x \in chosen : restaurants[x].price_level = 2})
                       = Max(2, N \div 3)

\* ------------------------------------------- ratings router's specification
\* the stars of the rating tests
RequestedRatings == {3, 5}

NextRatings ==
    \E u \in Users, r \in RatedRestaurants, v \in RequestedRatings :
        create_rating(u, r, v) /\ UNCHANGED <<simVars, lotVars>>

SpecRatings == InitRec /\ [][NextRatings]_vars

\* ------------------------------------------------- ratings router's claims
\* the rows of the pair named by the last create_rating request
rows_of_request(rows) ==
    {r \in rows : r.user_id = response.user_id /\ r.restaurant_id = response.restaurant_id}

\* C11: a user has at most one rating row per restaurant, and after a
\* create_rating request the pair's only row carries the requested value
C11_OneRatingPerRestaurant ==
    /\ \A r, q \in ratings :
          (r.user_id = q.user_id /\ r.restaurant_id = q.restaurant_id) => r = q
    /\ (response.op = "create_rating" /\ response.status = 201) =>
          /\ Cardinality(rows_of_request(ratings)) = 1
          /\ \A r \in rows_of_request(ratings) : r.rating = response.rating

\* the last request overwrote a row: its row is older than the newest row
C11_Witness ==
    /\ response.op = "create_rating" /\ response.status = 201
    /\ response.rating = 3
    /\ \E r \in ratings : r.id > response.db_rating.id

\* C12: a create_rating for a restaurant the user has not rated before raises
\* the restaurant's stored rating_count by exactly one
C12_NewRatingAddsOneToCount ==
    [][(/\ response'.op = "create_rating" /\ response'.status = 201
        /\ {r \in ratings : r.user_id = response'.user_id
                             /\ r.restaurant_id = response'.restaurant_id} = {}
        /\ ratings' # ratings)
       => restaurants'[response'.restaurant_id].rating_count
              = restaurants[response'.restaurant_id].rating_count + 1]_vars

\* ------------------------------------- the weights' and counts' specification
\* profiles of total_ratings ratings over unique_cuisines cuisines
WeightProfiles ==
    {[total_ratings |-> x[1], exploration_ratio |-> (x[2] * 1000) \div x[1]] :
        x \in {y \in (1..MaxTotalRatings) \X (0..MaxTotalRatings) : y[2] <= y[1]}}

\* a score map of one restaurant, or an empty one
ScoreMapsOfOne == {<<>>, <<500>>}

NextFormulas ==
    \/ \E p \in WeightProfiles, a, b, c, d \in ScoreMapsOfOne : hybrid_scoring(a, b, c, d, p)
    \/ \E n \in 0..MaxUserCount : cluster_count(n)

SpecFormulas == InitRec /\ [][NextFormulas]_vars

\* C13: the four blend weights sum to 1.0 (10 tenths) for every profile, so
\* a restaurant with the same score in all four maps keeps that score
C13_BlendWeightsSumToOne ==
    response.op = "_hybrid_scoring" =>
        /\ response.weights.collab + response.weights.content
               + response.weights.social + response.weights.temporal = 10
        /\ \A id \in DOMAIN response.final_scores :
              (\A i \in 1..4 : id \in DOMAIN response.scores[i]
                                /\ response.scores[i][id] = response.scores[1][id])
                  => response.final_scores[id] = 10 * response.scores[1][id]

\* an explorer with five or more ratings whose four scores agree
C13_Witness ==
    /\ response.op = "_hybrid_scoring"
    /\ response.user_profile.total_ratings >= 5
    /\ response.user_profile.exploration_ratio > 700
    /\ response.scores = <<(<<500>>), (<<500>>), (<<500>>), (<<500>>)>>
    /\ response.final_scores = <<5000>>

\* C14: the cluster count for n users is max(2, min(20, floor(n/10))), and
\* 45 users give 4 clusters
C14_ClusterCount ==
    response.op = "n_clusters" =>
        /\ response.n_clusters = Max(2, Min(20, response.n_users \div 10))
        /\ response.n_users = 45 => response.n_clusters = 4

\* a count above the cap: more than 200 users
C14_Witness ==
    /\ response.op = "n_clusters"
    /\ response.n_users > 200
    /\ response.n_clusters = 20

\* ------------------------------------- the similarity job's claims, continued
\* the rows of a table about the unordered pair of two users
rows_about(table, user1, user2) ==
    {i \in DOMAIN table :
        \/ table[i].user_1_id = user1 /\ table[i].user_2_id = user2
        \/ table[i].user_1_id = user2 /\ table[i].user_2_id = user1}

\* C15: after a run, for a pair that has a rating similarity r and a
\* preference similarity p (its two ids in either order in the keys), the rows
\* the run wrote for the pair carry 0.7*r + 0.3*p, and the pair has a row when
\* that value is above 0.15
C15_BlendUsesBothComponents ==
    IsBatchRun =>
        LET user_ids == _get_users_with_ratings
            rating_sims == _compute_rating_similarities(user_ids)
            pref_sims == _compute_preference_similarities(user_ids)
        IN \A k \in DOMAIN rating_sims :
              \A q \in DOMAIN pref_sims \cap {k, <<k[2], k[1]>>} :
                 LET overall == overall_similarity(rating_sims[k], pref_sims[q])
                     written == {i \in rows_about(UserSimilarity, k[1], k[2]) :
                                    UserSimilarity[i].last_computed = now}
                 IN /\ \A i \in written : UserSimilarity[i].overall_similarity = overall
                    /\ is_meaningful(overall) => written # {}

\* C16: the table holds at most one row per unordered pair of users, and
\* every row has user_1_id < user_2_id
C16_OneRowPerPair ==
    /\ \A i, j \in DOMAIN UserSimilarity :
          j \in rows_about(UserSimilarity, UserSimilarity[i].user_1_id,
                            UserSimilarity[i].user_2_id) => i = j
    /\ \A i \in DOMAIN UserSimilarity :
          UserSimilarity[i].user_1_id < UserSimilarity[i].user_2_id

\* C17: after any run of the job the table holds no row computed more than 7
\* days before the run, and every row the run neither deleted nor rewrote is
\* as it was
C17_NoOldEdgeAfterAnyRun ==
    [][response'.op = "update_all_similarities" =>
          /\ \A i \in DOMAIN UserSimilarity' :
                ~(UserSimilarity'[i].last_computed < now' - 7)
          /\ \A i \in DOMAIN UserSimilarity' :
                UserSimilarity'[i].last_computed < now' =>
                    \E j \in DOMAIN UserSimilarity : UserSimilarity[j] = UserSimilarity'[i]]_vars

\* C17 for the runs that reach the store: a run that finds at least 2 users
\* with ratings in the trailing 365 days leaves no row computed more than 7
\* days before it, deletes no younger row, and every row it neither deleted
\* nor rewrote is as it was
C17_NoOldEdgeAfterStoringRun ==
    [][(response'.op = "update_all_similarities" /\ Len(_get_users_with_ratings) >= 2) =>
          /\ \A i \in DOMAIN UserSimilarity' :
                ~(UserSimilarity'[i].last_computed < now' - 7)
          /\ \A i \in DOMAIN UserSimilarity' :
                UserSimilarity'[i].last_computed < now' =>
                    \E j \in DOMAIN UserSimilarity : UserSimilarity[j] = UserSimilarity'[i]
          /\ Len(UserSimilarity') >=
                Cardinality({j \in DOMAIN UserSimilarity :
                                ~(UserSimilarity[j].last_computed < now - 7)})]_vars

\* a run that stored found a row of an earlier day and kept it as it was
C17_Witness ==
    /\ IsBatchRun
    /\ response.stats.users_processed >= 2
    /\ \E i \in DOMAIN UserSimilarity :
          /\ UserSimilarity[i].last_computed < now
          /\ ~(UserSimilarity[i].last_computed < now - 7)

\* C18: a run that finds fewer than 2 users with ratings in the trailing 365
\* days returns statistics that are all zero and leaves the similarity table,
\* the cluster assignments and the weighted ratings as they were
C18_TooFewUsersIsNoOp ==
    [][(response'.op = "update_all_similarities" /\ Len(_get_users_with_ratings) < 2) =>
          /\ response'.stats = [users_processed |-> 0, similarities_computed |-> 0,
                                clusters_updated |-> 0, weighted_ratings_updated |-> 0]
          /\ UNCHANGED <<UserSimilarity, similarity_cluster, weighted_ratings>>]_vars

\* the run found one user with ratings and a table with a row
C18_Witness ==
    /\ IsBatchRun
    /\ Len(_get_users_with_ratings) = 1
    /\ UserSimilarity # <<>>

\* --------------------------------------- the Cluster Manager's specification
\* five users: the fewest whose pairs make the 10 rows the clustering asks for
ClusterUsers == {1, 2, 3, 4, 5}

\* similarity tables an earlier run left from the users' surveys: a row
\* (preference similarity 1.0, overall 0.3) for every pair of users 1 to 4,
\* and for a pair with user 5 no row, a row of preference similarity 0.6
\* (overall 0.18) or a row of preference similarity 1.0
EdgeTables ==
    {[i \in DOMAIN keys |->
         [user_1_id |-> keys[i] \div 10, user_2_id |-> keys[i] % 10,
          rating_similarity |-> 0, preference_similarity |-> f[keys[i]],
          overall_similarity |-> overall_similarity(0, f[keys[i]]),
          last_computed |-> 0]] :
        <<keys, f>> \in
            UNION {{<<SortedSeq({12, 13, 14, 23, 24, 34} \cup with5), g>> :
                       g \in {h \in [{12, 13, 14, 23, 24, 34} \cup with5 -> {60, 100}] :
                                  \A k \in {12, 13, 14, 23, 24, 34} : h[k] = 100}} :
                   with5 \in SUBSET {15, 25, 35, 45}}}

\* who rated restaurant 1 and who rated restaurant 2, all today with 5 stars
RaterSets == {{1, 2, 3, 4}, ClusterUsers} \X {{}, {1}, {1, 2, 3}}

\* the cells an earlier run wrote for cluster 0, when its members had rated
\* restaurants 1 and 3 with 3 stars
EarlierCells ==
    <<[restaurant_id |-> 1, user_cluster |-> 0, weighted_avg_rating |-> 30,
       confidence_score |-> 300, total_ratings |-> 3, rating_variance |-> 0,
       recent_trend |-> 0, last_computed |-> 0],
      [restaurant_id |-> 3, user_cluster |-> 0, weighted_avg_rating |-> 30,
       confidence_score |-> 300, total_ratings |-> 3, rating_variance |-> 0,
       recent_trend |-> 0, last_computed |-> 0]>>

InitCluster ==
    /\ lottery_tables_empty
    /\ restaurants = SeedRestaurants
    /\ \E raters \in RaterSets :
          ratings = {[id |-> 10 * x[2] + x[1], user_id |-> x[1], restaurant_id |-> x[2],
                      rating |-> 5, created_at |-> 0] :
                        x \in {y \in ClusterUsers \X {1, 2} : y[1] \in raters[y[2]]}}
    /\ redis_store = <<>>
    /\ user_preferences = {}
    /\ response = [op |-> "none"]
    /\ now = 0
    /\ bubble_preferences = <<>>
    /\ UserSimilarity \in EdgeTables
    /\ similarity_cluster = [u \in ClusterUsers |-> NULL]
    /\ weighted_ratings \in {<<>>, EarlierCells}

NextCluster ==
    \/ update_user_clusters
    \/ \E cluster_id \in {0, 1} : update_cluster_weighted_ratings(cluster_id)

SpecCluster == InitCluster /\ [][NextCluster]_vars

\* ------------------------------------------------ the Cluster Manager's claims
\* C19: the clustering assigns clusters exactly when at least 10 rows are
\* stored between candidate users, and with fewer rows no user's cluster changes
C19_ClusteringIffTenEdges ==
    [][response'.op = "_update_user_clusters" =>
          LET stored == {i \in DOMAIN UserSimilarity :
                            /\ UserSimilarity[i].user_1_id \in Range(response'.user_ids)
                            /\ UserSimilarity[i].user_2_id \in Range(response'.user_ids)}
          IN /\ Cardinality(stored) >= 10 <=> response'.cluster_assignments # <<>>
             /\ Cardinality(stored) < 10 => similarity_cluster' = similarity_cluster]_vars

\* C20: a weighted-rating row is written for a restaurant and a cluster only
\* when the cluster has at least 3 members and at least 3 of them rated the
\* restaurant
C20_CellNeedsThreeRaters ==
    [][\A i \in DOMAIN weighted_ratings' :
          (i \notin DOMAIN weighted_ratings \/ weighted_ratings'[i] # weighted_ratings[i]) =>
              LET members == {u \in DOMAIN similarity_cluster :
                                 similarity_cluster[u] = weighted_ratings'[i].user_cluster}
                  raters == {u \in members :
                                \E r \in ratings :
                                    /\ r.user_id = u
                                    /\ r.restaurant_id = weighted_ratings'[i].restaurant_id}
              IN Cardinality(members) >= 3 /\ Cardinality(raters) >= 3]_vars

\* C21: the weighted_ratings table holds at most one row per restaurant and
\* cluster, whatever calls came before
C21_OneCellPerRestaurantAndCluster ==
    \A i, j \in DOMAIN weighted_ratings :
        (/\ weighted_ratings[i].restaurant_id = weighted_ratings[j].restaurant_id
         /\ weighted_ratings[i].user_cluster = weighted_ratings[j].user_cluster) => i = j

\* the cell of restaurant 1 and cluster 0 that an earlier run left with 3.0
\* was recomputed to 5.0 in its place, beside the untouched cell of restaurant 3
C21_Witness ==
    /\ response.op = "_update_cluster_weighted_ratings"
    /\ response.cluster_id = 0
    /\ \E i \in DOMAIN weighted_ratings :
          /\ weighted_ratings[i].restaurant_id = 3
          /\ weighted_ratings[i].user_cluster = 0
    /\ weighted_ratings[1].restaurant_id = 1
    /\ weighted_ratings[1].user_cluster = 0
    /\ weighted_ratings[1].weighted_avg_rating = 50

\* C22: a run of the job in which a step fails returns statistics to its
\* caller and does not raise
C22_BatchFailureDoesNotPropagate ==
    response.op = "update_all_similarities_fault" => response.status = "returned"

\* ------------------------------------ the diversity selector's claims, continued
\* C23: the selection is a subsequence of the candidates by falling score with
\* at most N entries, and a candidate that comes before the last selected one
\* and is not selected had, among those selected before it, max(2, N div 4)
\* of its cuisine or max(2, N div 3) of its price level
C23_GreedyWalk ==
    (response.op = "_enhance_diversity" /\ response.status = "ok") =>
        LET selected == response.selected
            scores == response.scores
            N == response.limit
            before(a, b) == scores[a] > scores[b] \/ (scores[a] = scores[b] /\ a < b)
            earlier(c) == {i \in DOMAIN selected : before(selected[i], c)}
        IN /\ Len(selected) <= N
           /\ \A i \in DOMAIN selected : selected[i] \in DOMAIN scores
           /\ \A i, j \in DOMAIN selected : i < j => before(selected[i], selected[j])
           /\ \A c \in DOMAIN scores \ Range(selected) :
                 (selected # <<>> /\ before(c, selected[Len(selected)])) =>
                     \/ Cardinality({i \in earlier(c) :
                            restaurants[selected[i]].cuisine_type = restaurants[c].cuisine_type})
                            >= Max(2, N \div 4)
                     \/ Cardinality({i \in earlier(c) :
                            /\ restaurants[c].price_level # NULL
                            /\ restaurants[selected[i]].price_level = restaurants[c].price_level})
                            >= Max(2, N \div 3)

\* a candidate was passed over and one of a lower score was selected after it
C23_Witness ==
    /\ response.op = "_enhance_diversity" /\ response.status = "ok"
    /\ response.selected # <<>>
    /\ \E c \in DOMAIN response.scores \ Range(response.selected) :
          response.scores[c] > response.scores[response.selected[Len(response.selected)]]

\* ------------------------------------------ the social proof's specification
\* user 1 gave restaurants 1, 2 and 3 five stars; each of the users 2 to
\* n + 1 gave restaurants 1 and 2 the stars a and restaurant 3 the stars b
InitSocial ==
    /\ lottery_tables_empty
    /\ restaurants = [id \in RestaurantIds |->
                         SeedRestaurants[id]
                         @@ [active |-> SeedRestaurants[id].is_active,
                             tags |-> json_dumps(<<>>)]]
    /\ \E n \in 0..MaxRaters, a \in {3, 4, 5}, b \in {3, 4, 5} :
          ratings = {[id |-> 3 * (x[1] - 1) + x[2], user_id |-> x[1], restaurant_id |-> x[2],
                      rating |-> IF x[1] = 1 THEN 5 ELSE IF x[2] = 3 THEN b ELSE a,
                      created_at |-> 0] : x \in (1..(n + 1)) \X {1, 2, 3}}
    /\ redis_store = <<>>
    /\ user_preferences = {}
    /\ response = [op |-> "none"]
    /\ now = 0
    /\ bubble_preferences = <<>>
    /\ UserSimilarity = <<>>
    /\ similarity_cluster = [u \in Users |-> NULL]
    /\ weighted_ratings = <<>>

NextSocial == \E u \in {1, 2} : social_proof_weighting(u)

SpecSocial == InitSocial /\ [][NextSocial]_vars

\* C24: the social-proof score of a restaurant is the mean of rating times
\* similarity over the similar users' ratings, divided by 5 and multiplied by
\* min(count / 10, 1)
C24_SocialProofFactorAtMostOne ==
    response.op = "_social_proof_weighting" =>
        LET taste_users == _find_similar_taste_users(response.user_id)
        IN \A id \in DOMAIN response.social_scores :
              LET rows == {r \in ratings :
                              r.restaurant_id = id /\ r.user_id \in DOMAIN taste_users}
                  count == Cardinality(rows)
                  mean == Sum([r \in rows |-> r.rating * taste_users[r.user_id] * 10])
                              \div count
              IN response.social_scores[id] =
                     IF rows = {} THEN 0 ELSE ((mean \div 5) * Min(count, 10)) \div 10

\* ------------------------------------------ the simple engine's claims, continued
\* C25: a response is derived from a rating history that holds every rating
\* the user has committed: a restaurant the user has rated carries the score
\* the engine gives a rated restaurant, 0
C25_ResponseReflectsCommittedRatings ==
    IsRecommendation =>
        \A i \in DOMAIN response.result :
            response.result[i].id \in DOMAIN user_rating_dict(response.user_id)
                => response.result[i].recommendation_score = 0

\* ------------------------------------------------------ routers/lottery.py
\* the most check-ins and detailed ratings the requests make, and the number
\* of restaurants a user can import visits of
MaxCheckins == 2
MaxSubmissions == 1
MaxVisits == 21

\* distance in metres between two points of one meridian, latitudes in
\* 1/10000 degree: R * delta_phi, R = 6371000 m
calculate_distance(lat1, lat2) == (Abs(lat2 - lat1) * 11119) \div 1000

\* strftime("%Y-%m") of a clock in minutes, months of 30 days
get_current_month(t) == t \div (30 * 24 * 60)

\* the user's row for the month, added with the column defaults when there
\* is none: the table after the call and the row's place in it
get_or_create_user_points(table, user_id, current_month) ==
    LET found == {i \in DOMAIN table : /\ table[i].user_id = user_id
                                       /\ table[i].current_month = current_month}
    IN IF found # {}
       THEN [table |-> table,
             row |-> CHOOSE i \in found : \A j \in found : i <= j]
       ELSE [table |-> Append(table, [user_id |-> user_id,
                                      current_month |-> current_month,
                                      total_points |-> 0, monthly_points |-> 0,
                                      total_ratings |-> 0, total_photos |-> 0,
                                      total_checkins |-> 0,
                                      bulk_import_points |-> 0,
                                      bulk_import_completed |-> FALSE]),
             row |-> Len(table) + 1]

\* POST /lottery/checkin
check_into_restaurant(user_id, restaurant_id, user_lat) ==
    LET distance == calculate_distance(user_lat, restaurants[restaurant_id].latitude)
        today == (lottery_now \div (24 * 60)) * (24 * 60)
        existing_checkin == {i \in DOMAIN checkins :
                                /\ checkins[i].user_id = user_id
                                /\ checkins[i].restaurant_id = restaurant_id
                                /\ checkins[i].check_in_time >= today
                                /\ checkins[i].status \in {"pending", "active"}}
        got == get_or_create_user_points(user_points, user_id,
                                         get_current_month(lottery_now))
        refused(code) ==
            /\ response' = [op |-> "check_into_restaurant", status |-> code,
                            user_id |-> user_id, restaurant_id |-> restaurant_id]
            /\ UNCHANGED <<checkins, user_points>>
    IN /\ Len(checkins) < MaxCheckins
       /\ IF restaurant_id \notin DOMAIN restaurants THEN refused(404)
          ELSE IF distance > 100 THEN refused(400)
          ELSE IF existing_checkin # {} THEN refused(400)
          ELSE /\ checkins' = Append(checkins,
                                     [user_id |-> user_id,
                                      restaurant_id |-> restaurant_id,
                                      distance_from_restaurant |-> distance,
                                      check_in_time |-> lottery_now,
                                      min_stay_completed_at |-> NULL,
                                      rating_deadline |-> NULL,
                                      status |-> "pending",
                                      rating_id |-> NULL])
               /\ user_points' = [got.table EXCEPT ![got.row].total_checkins = @ + 1]
               /\ response' = [op |-> "check_into_restaurant", status |-> 200,
                               user_id |-> user_id, restaurant_id |-> restaurant_id]
       /\ UNCHANGED <<restaurants, ratings, redis_store, user_preferences, simVars, lottery_now, detailed_ratings,
                      point_transactions, in_flight>>

\* GET /lottery/checkins/active
get_active_checkins(user_id) ==
    LET refreshed(checkin) ==
            IF /\ checkin.status = "pending"
               /\ lottery_now - checkin.check_in_time >= 10
            THEN [checkin EXCEPT !.status = "active",
                                 !.min_stay_completed_at = lottery_now,
                                 !.rating_deadline = lottery_now + 48 * 60]
            ELSE IF /\ checkin.status = "active"
                    /\ checkin.rating_deadline # NULL
                    /\ lottery_now > checkin.rating_deadline
            THEN [checkin EXCEPT !.status = "expired"]
            ELSE checkin
        listed == {i \in DOMAIN checkins : /\ checkins[i].user_id = user_id
                                           /\ checkins[i].status \in {"pending", "active"}}
    IN /\ checkins' = [i \in DOMAIN checkins |->
                          IF i \in listed THEN refreshed(checkins[i]) ELSE checkins[i]]
       /\ response' = [op |-> "get_active_checkins", status |-> 200,
                       user_id |-> user_id, result |-> listed]
       /\ UNCHANGED <<restaurants, ratings, redis_store, user_preferences, simVars, lottery_now, detailed_ratings,
                      user_points, point_transactions, in_flight>>

\* the id of the user's rating row for the restaurant, NULL when there is none
existing_rating(rows, user_id, restaurant_id) ==
    LET existing == {r.id : r \in {q \in rows : /\ q.user_id = user_id
                                               /\ q.restaurant_id = restaurant_id}}
    IN IF existing = {} THEN NULL
       ELSE CHOOSE i \in existing : \A j \in existing : i <= j

\* the row found is given the new rating, or a row is added when none was found
write_rating(rows, found, user_id, restaurant_id, rating) ==
    IF found # NULL
    THEN {IF r.id = found THEN [r EXCEPT !.rating = rating] ELSE r : r \in rows}
    ELSE rows \cup {[id |-> next_rating_id(rows), user_id |-> user_id,
                     restaurant_id |-> restaurant_id, rating |-> rating,
                     created_at |-> now]}

\* submit_detailed_rating from the write of the rating row on (lines 200-275),
\* found being what the lookup of lines 195-198 returned
detailed_rating_commit(user_id, restaurant_id, checkin_id, overall_rating, photos, found) ==
    LET rating_id == IF found # NULL THEN found ELSE next_rating_id(ratings)
        total_points == 10 + (IF photos THEN 5 ELSE 0)
        current_month == get_current_month(lottery_now)
        got == get_or_create_user_points(user_points, user_id, current_month)
    IN /\ ratings' = write_rating(ratings, found, user_id, restaurant_id, overall_rating)
       /\ detailed_ratings' = Append(detailed_ratings,
                                     [user_id |-> user_id,
                                      restaurant_id |-> restaurant_id,
                                      rating_id |-> rating_id,
                                      checkin_id |-> checkin_id,
                                      overall_rating |-> overall_rating,
                                      has_photos |-> photos,
                                      points_earned |-> total_points])
       /\ checkins' = IF checkin_id # NULL
                      THEN [checkins EXCEPT ![checkin_id].status = "rated",
                                            ![checkin_id].rating_id = rating_id]
                      ELSE checkins
       /\ user_points' = [got.table EXCEPT
                             ![got.row].total_points = @ + total_points,
                             ![got.row].monthly_points = @ + total_points,
                             ![got.row].total_ratings = @ + 1,
                             ![got.row].total_photos = @ + (IF photos THEN 1 ELSE 0)]
       /\ point_transactions' = Append(point_transactions,
                                       [user_id |-> user_id,
                                        points |-> total_points,
                                        reason |-> IF photos
                                                   THEN "detailed_rating_with_photo"
                                                   ELSE "detailed_rating",
                                        rating_id |-> rating_id,
                                        checkin_id |-> checkin_id,
                                        month |-> current_month])
       /\ response' = [op |-> "submit_detailed_rating", status |-> 200,
                       user_id |-> user_id, restaurant_id |-> restaurant_id,
                       checkin_id |-> checkin_id, points_earned |-> total_points]
       /\ UNCHANGED <<restaurants, redis_store, user_preferences, simVars, lottery_now>>

\* POST /lottery/ratings
submit_detailed_rating(user_id, restaurant_id, checkin_id, overall_rating, photos) ==
    LET checkin == {i \in DOMAIN checkins : /\ i = checkin_id
                                            /\ checkins[i].user_id = user_id
                                            /\ checkins[i].status = "active"}
        refused(code) ==
            /\ response' = [op |-> "submit_detailed_rating", status |-> code,
                            user_id |-> user_id, restaurant_id |-> restaurant_id,
                            checkin_id |-> checkin_id]
            /\ UNCHANGED <<restaurants, ratings, redis_store, user_preferences, simVars, lottery_now, checkins,
                           detailed_ratings, user_points, point_transactions>>
    IN /\ Len(detailed_ratings) < MaxSubmissions
       /\ IF restaurant_id \notin DOMAIN restaurants THEN refused(404)
          ELSE IF checkin_id \notin {NULL, 0} /\ checkin = {} THEN refused(400)
          ELSE detailed_rating_commit(user_id, restaurant_id,
                                      IF checkin_id = 0 THEN NULL ELSE checkin_id,
                                      overall_rating, photos,
                                      existing_rating(ratings, user_id, restaurant_id))
       /\ UNCHANGED in_flight

\* name ILIKE '%pattern%': the pattern occurs in the name, letter case aside;
\* a text is its sequence of characters
ilike(name, pattern) ==
    LET lower(c) == IF c = "A" THEN "a" ELSE IF c = "B" THEN "b" ELSE c
    IN \E i \in 0..(Len(name) - Len(pattern)) :
          \A j \in 1..Len(pattern) : lower(name[i + j]) = lower(pattern[j])

\* lines 353-390: the loop over the visits of the request; acc holds the
\* ratings and point_transactions tables, total_points and imported_count
RECURSIVE import_visits(_, _, _, _)
import_visits(visits, user_id, current_month, acc) ==
    IF visits = <<>> THEN acc
    ELSE LET restaurant_data == Head(visits)
             matching == {k \in DOMAIN restaurants :
                             ilike(restaurants[k].name, restaurant_data.name)}
             existing_restaurant == CHOOSE k \in matching : \A m \in matching : k <= m
             imported ==
                 [ratings |-> write_rating(acc.ratings, NULL, user_id,
                                           existing_restaurant, restaurant_data.rating),
                  point_transactions |->
                      Append(acc.point_transactions,
                             [user_id |-> user_id, points |-> 10,
                              reason |-> "bulk_import",
                              rating_id |-> next_rating_id(acc.ratings),
                              checkin_id |-> NULL, month |-> current_month]),
                  total_points |-> acc.total_points + 10,
                  imported_count |-> acc.imported_count + 1]
         IN import_visits(Tail(visits), user_id, current_month,
                IF /\ matching # {}
                   /\ existing_rating(acc.ratings, user_id, existing_restaurant) = NULL
                THEN imported ELSE acc)

\* POST /lottery/bulk-import
bulk_import_past_visits(user_id, import_data) ==
    LET current_month == get_current_month(lottery_now)
        got == get_or_create_user_points(user_points, user_id, current_month)
        done == import_visits(import_data, user_id, current_month,
                              [ratings |-> ratings,
                               point_transactions |-> point_transactions,
                               total_points |-> 0, imported_count |-> 0])
        total_points == IF done.total_points > 200 THEN 200 ELSE done.total_points
        refused ==
            /\ user_points' = got.table
            /\ response' = [op |-> "bulk_import_past_visits", status |-> 400,
                            user_id |-> user_id, import_data |-> import_data]
            /\ UNCHANGED <<ratings, point_transactions>>
    IN /\ IF got.table[got.row].bulk_import_completed THEN refused
          ELSE IF Len(import_data) > 50 THEN refused
          ELSE /\ ratings' = done.ratings
               /\ point_transactions' = done.point_transactions
               /\ user_points' = [got.table EXCEPT
                                     ![got.row].total_points = @ + total_points,
                                     ![got.row].monthly_points = @ + total_points,
                                     ![got.row].bulk_import_points = total_points,
                                     ![got.row].bulk_import_completed = TRUE,
                                     ![got.row].total_ratings = @ + done.imported_count]
               /\ response' = [op |-> "bulk_import_past_visits", status |-> 200,
                               user_id |-> user_id, import_data |-> import_data,
                               imported_count |-> done.imported_count,
                               points_earned |-> total_points]
       /\ UNCHANGED <<restaurants, redis_store, user_preferences, simVars,
                      lottery_now, checkins, detailed_ratings, in_flight>>

\* DELETE /ratings/{rating_id}
delete_rating(rating_id, user_id) ==
    LET rating == {r \in ratings : r.id = rating_id /\ r.user_id = user_id}
        restaurant_id == (CHOOSE r \in rating : TRUE).restaurant_id
        rows == ratings \ rating
        of_restaurant == {r \in rows : r.restaurant_id = restaurant_id}
        rests == IF restaurant_id \in DOMAIN restaurants
                 THEN [restaurants EXCEPT
                          ![restaurant_id].avg_rating = restaurant_avg_rating(of_restaurant),
                          ![restaurant_id].rating_count = Cardinality(of_restaurant)]
                 ELSE restaurants
    IN /\ IF rating = {}
          THEN /\ response' = [op |-> "delete_rating", status |-> 404,
                               user_id |-> user_id, rating_id |-> rating_id]
               /\ UNCHANGED <<restaurants, ratings, user_preferences>>
          ELSE /\ ratings' = rows
               /\ restaurants' = rests
               /\ user_preferences' = update_user_preferences(user_preferences, rows,
                                                              rests, user_id)
               /\ response' = [op |-> "delete_rating", status |-> 204,
                               user_id |-> user_id, rating_id |-> rating_id]
       /\ UNCHANGED <<redis_store, simVars, lotVars>>

\* the clock reaches a later moment at which a request arrives
lottery_clock(t) ==
    /\ t > lottery_now
    /\ lottery_now' = t
    /\ now' = t \div (24 * 60)
    /\ response' = [op |-> "none"]
    /\ UNCHANGED <<restaurants, ratings, redis_store, user_preferences,
                   bubble_preferences, UserSimilarity, similarity_cluster,
                   weighted_ratings, checkins, detailed_ratings, user_points,
                   point_transactions, in_flight>>

\* create_rating from the write of the rating row on (lines 34-67), found
\* being what the lookup of lines 29-32 returned
create_rating_commit(user_id, restaurant_id, rating, found) ==
    LET rows == write_rating(ratings, found, user_id, restaurant_id, rating)
        of_restaurant == {r \in rows : r.restaurant_id = restaurant_id}
        rests == [restaurants EXCEPT
                     ![restaurant_id].avg_rating = restaurant_avg_rating(of_restaurant),
                     ![restaurant_id].rating_count = Cardinality(of_restaurant)]
    IN /\ ratings' = rows
       /\ restaurants' = rests
       /\ user_preferences' = update_user_preferences(user_preferences, rows, rests, user_id)
       /\ response' = [op |-> "create_rating", status |-> 201, user_id |-> user_id,
                       restaurant_id |-> restaurant_id, rating |-> rating]
       /\ UNCHANGED <<redis_store, simVars, lottery_now, checkins, detailed_ratings,
                      user_points, point_transactions>>

\* a worker process takes a rating request and runs its handler up to the
\* lookup of the user's row for the restaurant
rating_lookup(p, handler, user_id, restaurant_id, rating) ==
    /\ p \notin DOMAIN in_flight
    /\ restaurant_id \in DOMAIN restaurants
    /\ handler = "submit_detailed_rating" =>
          Len(detailed_ratings)
              + Cardinality({q \in DOMAIN in_flight :
                                in_flight[q].handler = "submit_detailed_rating"})
              < MaxSubmissions
    /\ in_flight' = in_flight @@
                    (p :> [handler |-> handler, user_id |-> user_id,
                           restaurant_id |-> restaurant_id, rating |-> rating,
                           found |-> existing_rating(ratings, user_id, restaurant_id)])
    /\ UNCHANGED <<recVars, simVars, lottery_now, checkins, detailed_ratings,
                   user_points, point_transactions>>

\* the worker runs its handler from the lookup to the end
rating_commit(p) ==
    /\ p \in DOMAIN in_flight
    /\ IF in_flight[p].handler = "create_rating"
       THEN create_rating_commit(in_flight[p].user_id, in_flight[p].restaurant_id,
                                 in_flight[p].rating, in_flight[p].found)
       ELSE detailed_rating_commit(in_flight[p].user_id, in_flight[p].restaurant_id,
                                   NULL, in_flight[p].rating, FALSE, in_flight[p].found)
    /\ in_flight' = [q \in DOMAIN in_flight \ {p} |-> in_flight[q]]

\* --------------------------------------------------------- specification
\* the restaurants of the lottery requests: no rating yet, 1/10000 degree
\* (11 m) apart on one meridian, each with a name of two letters
VisitedRestaurants ==
    [k \in 1..MaxVisits |->
        [id |-> k,
         name |-> <<(<<"a", "b", "c", "d", "e">>)[((k - 1) \div 5) + 1],
                    (<<"a", "b", "c", "d", "e">>)[((k - 1) % 5) + 1]>>,
         cuisine_type |-> IF k % 2 = 0 THEN "Pizza" ELSE "Japanese",
         price_level |-> 2, latitude |-> 359100 + k, is_active |-> TRUE,
         avg_rating |-> 0, rating_count |-> 0, google_rating |-> NULL]]

\* import requests: the first restaurant, every restaurant, and a request
\* with a name no restaurant has and one name twice, once in capitals
ImportRequests ==
    {[k \in 1..n |-> [name |-> VisitedRestaurants[k].name, rating |-> 4]] :
        n \in {1, MaxVisits}}
    \cup {<<[name |-> <<"z">>, rating |-> 4], [name |-> <<"a", "b">>, rating |-> 4],
            [name |-> <<"A", "B">>, rating |-> 2]>>}

InitLottery ==
    /\ lottery_tables_empty
    /\ restaurants = VisitedRestaurants
    /\ ratings = {}
    /\ redis_store = <<>>
    /\ user_preferences = {}
    /\ response = [op |-> "none"]
    /\ now = 0
    /\ bubble_preferences = <<>>
    /\ UserSimilarity = <<>>
    /\ similarity_cluster = [u \in Users |-> NULL]
    /\ weighted_ratings = <<>>

\* the check-in requests of one user, and the moments they arrive at: after
\* the stay of 10 minutes and after the 48 hours of the deadline
NextLottery ==
    \/ \E r \in {1, 2}, lat \in {359101, 359121} :
          check_into_restaurant(1, r, lat)
    \/ get_active_checkins(1)
    \/ \E c \in {NULL} \cup (1..MaxCheckins) :
          submit_detailed_rating(1, 1, c, 4, FALSE)
    \/ \E t \in {10, 48 * 60 + 11} : lottery_clock(t)

SpecLottery == InitLottery /\ [][NextLottery]_vars

\* the requests that write ratings and points, in one month and the next
NextLedger ==
    \/ \E u \in Users, photos \in BOOLEAN :
          submit_detailed_rating(u, 1, NULL, 4, photos)
    \/ \E import_data \in ImportRequests :
          bulk_import_past_visits(1, import_data)
    \/ delete_rating(1, 1)
    \/ create_rating(1, 1, 5) /\ UNCHANGED <<simVars, lotVars>>
    \/ lottery_clock(30 * 24 * 60)

SpecLedger == InitLottery /\ [][NextLedger]_vars

\* two worker processes serving one user's rating requests for one restaurant
NextRace ==
    \/ \E p \in {1, 2}, handler \in {"create_rating", "submit_detailed_rating"},
          v \in {3, 5} :
          rating_lookup(p, handler, 1, 1, v)
    \/ \E p \in {1, 2} : rating_commit(p)

SpecRace == InitLottery /\ [][NextRace]_vars

\* ------------------------------------------------------ the lottery's claims
\* C26: whatever the interleaving of two rating handlers, a user has at most
\* one rating row for a restaurant
C26_OneRowUnderInterleaving ==
    \A u \in Users, k \in DOMAIN restaurants :
        Cardinality({r \in ratings : r.user_id = u /\ r.restaurant_id = k}) <= 1

\* C27: after every request that writes ratings, each restaurant's
\* rating_count is the number of its rating rows and its avg_rating is their
\* mean, 0.0 when it has none
C27_CountAndMeanMatchRows ==
    \A k \in DOMAIN restaurants :
        LET of_restaurant == {r \in ratings : r.restaurant_id = k}
        IN /\ restaurants[k].rating_count = Cardinality(of_restaurant)
           /\ restaurants[k].avg_rating = restaurant_avg_rating(of_restaurant)

\* C28: a check-in becomes rated only when it was active and its
\* rating_deadline had not passed
C28_RatedOnlyFromActiveBeforeDeadline ==
    [][\A i \in DOMAIN checkins :
          (checkins[i].status # "rated" /\ checkins'[i].status = "rated")
              => /\ checkins[i].status = "active"
                 /\ ~(lottery_now > checkins[i].rating_deadline)]_vars

\* C29: a user's monthly_points for a month is the sum of the points of the
\* user's point transactions of that month
C29_MonthlyPointsMatchLedger ==
    \A i \in DOMAIN user_points :
        LET of_month == {j \in DOMAIN point_transactions :
                            /\ point_transactions[j].user_id = user_points[i].user_id
                            /\ point_transactions[j].month = user_points[i].current_month}
        IN user_points[i].monthly_points
               = Sum([j \in of_month |-> point_transactions[j].points])

\* C30: once a user's bulk import has succeeded, every later bulk import of
\* that user is refused and awards no points
C30_BulkImportOnlyOnce ==
    [][(/\ response'.op = "bulk_import_past_visits"
        /\ \E i \in DOMAIN user_points :
              /\ user_points[i].user_id = response'.user_id
              /\ user_points[i].bulk_import_completed)
          => /\ response'.status = 400
             /\ point_transactions' = point_transactions]_vars
====
